--------------------------- MODULE TripCause_proofs ---------------------------
(***************************************************************************)
(* Proof that the Safety Controller has no false trips: whatever the fault *)
(* hypothesis and the timers, the relay is killed only for a reason that   *)
(* the faults of the behaviour explain.                                    *)
(***************************************************************************)
EXTENDS SafetyController_proofs

-----------------------------------------------------------------------------
(* The frames of undisturbed mailboxes *)

\* The payload of a frame is one of its mailbox; without an E2E disturbance
\* the frame passes the check, whatever the mailbox received before.
LEMMA FramesOfMailbox ==
  ASSUME NEW mb, NEW f \in Frames(mb)
  PROVE  /\ f.data \in Payloads(mb)
         /\ ~Disturbed("e2e", mb) => SC_E2E_Valid(e2e[mb], f)
  <1>1. CASE Disturbed("e2e", mb)
    BY <1>1 DEF Frames, Frame
  <1>2. CASE ~Disturbed("e2e", mb)
    BY <1>2 DEF Frames, SC_E2E_Valid
  <1> QED BY <1>1, <1>2

\* Only a disturbance of the payloads brings an E-stop, a torque or a current.
LEMMA QuietPayloads ==
  /\ "estop" \notin hyp.kinds => Payloads("ESTOP") = {FALSE}
  /\ "drive" \notin hyp.kinds => \A mb \in DriveMailboxes : Payloads(mb) = {0}
  BY DEF Payloads, DriveMailboxes

-----------------------------------------------------------------------------
(* Stored frames *)

\* An active E-stop and a failed mailbox have their disturbances; without a
\* disturbance of torque and current both are zero, once received.
FrameCause ==
    /\ can.estop_active => "estop" \in hyp.kinds
    /\ can.bus_off => "busoff" \in hyp.kinds
    /\ "drive" \notin hyp.kinds => \A mb \in DriveMailboxes : can.msg[mb] \in {0, NoData}
    /\ \A mb \in Mailboxes : e2e[mb].failed => "e2e" \in hyp.kinds

LEMMA FrameCauseInit == Init => FrameCause
  BY DEF Init, FrameCause, CanInit, SC_E2E_Init

\* An accepted frame is stored as it is, and fails no mailbox.
LEMMA AcceptKeepsCause ==
  ASSUME RxInv, FrameCause, NEW mb \in Mailboxes, NEW f \in Frames(mb), AcceptFrame(mb, f)
  PROVE  FrameCause'
  <1>1. hyp' = hyp /\ e2e' = [e2e EXCEPT ![mb] = SC_E2E_Check(@, f)]
    BY DEF AcceptFrame
  <1>2. f.data \in Payloads(mb)
    BY FramesOfMailbox
  <1>3. SC_E2E_Check(e2e[mb], f).failed = e2e[mb].failed
    BY E2eCheckValid DEF AcceptFrame, RxInv
  <1>4. \A m \in Mailboxes : e2e'[m].failed = e2e[m].failed
    BY <1>1, <1>3 DEF RxInv
  <1>5. CASE mb \in DriveMailboxes
    <2>1. can' = [can EXCEPT !.msg = [can.msg EXCEPT ![mb] = f.data]]
      BY <1>5 DEF AcceptFrame
    <2>2. /\ can'.msg = [can.msg EXCEPT ![mb] = f.data]
          /\ can'.estop_active = can.estop_active /\ can'.bus_off = can.bus_off
      BY <2>1 DEF RxInv, CanState
    <2>3. "drive" \notin hyp.kinds => f.data = 0
      BY <1>2, <1>5, QuietPayloads
    <2>4. can.msg \in [DriveMailboxes -> Nat \cup {NoData}]
      BY DEF RxInv, CanState
    <2> QED BY <1>1, <1>4, <2>2, <2>3, <2>4 DEF FrameCause
  <1>6. CASE mb \notin DriveMailboxes /\ mb = "ESTOP"
    <2>1. can' = [can EXCEPT !.estop_active = f.data]
      BY <1>6 DEF AcceptFrame
    <2>2. can'.msg = can.msg /\ can'.estop_active = f.data /\ can'.bus_off = can.bus_off
      BY <2>1 DEF RxInv, CanState
    <2>3. "estop" \notin hyp.kinds => f.data = FALSE
      BY <1>2, <1>6, QuietPayloads
    <2> QED BY <1>1, <1>4, <2>2, <2>3 DEF FrameCause
  <1>7. CASE mb \notin DriveMailboxes /\ mb # "ESTOP"
    <2>1. can' = can
      BY <1>7 DEF AcceptFrame
    <2> QED BY <1>1, <1>4, <2>1 DEF FrameCause
  <1> QED BY <1>5, <1>6, <1>7

LEMMA FrameCauseStep == RxInv /\ FrameCause /\ [Next]_vars => FrameCause'
  <1> SUFFICES ASSUME RxInv, FrameCause, [Next]_vars PROVE FrameCause'
    OBVIOUS
  <1>1. CASE ReceiveMailbox
    <2>1. PICK mb \in rx_todo : \/ MailboxEmpty(mb)
                                \/ \E f \in Frames(mb) : RejectFrame(mb, f) \/ AcceptFrame(mb, f)
      BY <1>1 DEF ReceiveMailbox
    <2>2. mb \in Mailboxes
      BY <2>1 DEF RxInv
    <2>3. CASE MailboxEmpty(mb)
      BY <2>3 DEF MailboxEmpty, FrameCause
    <2>4. ASSUME NEW f \in Frames(mb), RejectFrame(mb, f)
          PROVE  FrameCause'
      <3>1. "e2e" \in hyp.kinds
        BY <2>4, FramesOfMailbox DEF RejectFrame, Disturbed
      <3>2. can' = can /\ hyp' = hyp
        BY <2>4 DEF RejectFrame
      <3> QED BY <3>1, <3>2 DEF FrameCause
    <2> QED BY <2>1, <2>2, <2>3, <2>4, AcceptKeepsCause
  <1>2. CASE ReceiveDone
    <2>1. /\ can'.estop_active = can.estop_active /\ can'.bus_off = can.bus_off
          /\ can'.msg = can.msg
      BY <1>2 DEF ReceiveDone, RxInv, CanState
    <2>2. e2e' = e2e /\ hyp' = hyp
      BY <1>2 DEF ReceiveDone
    <2> QED BY <2>1, <2>2 DEF FrameCause
  <1>3. CASE MonitorBus
    <2>1. PICK off \in (IF "busoff" \in hyp.kinds THEN BOOLEAN ELSE {FALSE}) :
              can' = [can EXCEPT !.bus_silence_counter = CountUpTo(BusSilenceTicks, @),
                                 !.bus_off = off]
      BY <1>3 DEF MonitorBus
    <2>2. /\ can'.estop_active = can.estop_active /\ can'.bus_off = off
          /\ can'.msg = can.msg
      BY <2>1 DEF RxInv, CanState
    <2>3. e2e' = e2e /\ hyp' = hyp
      BY <1>3 DEF MonitorBus
    <2> QED BY <2>1, <2>2, <2>3 DEF FrameCause
  <1>4. CASE WatchdogReset
    BY <1>4 DEF WatchdogReset, FrameCause, CanInit, SC_E2E_Init
  <1>5. CASE UNCHANGED <<e2e, can, hyp>>
    BY <1>5 DEF FrameCause
  <1>6. \/ ReceiveMailbox \/ ReceiveDone \/ MonitorBus \/ WatchdogReset
        \/ UNCHANGED <<e2e, can, hyp>>
    BY DEF Next, MainStep, SelfTestStartup, EnergizeRelay, WaitForTick, HeartbeatMonitor,
           PlausibilityCheck, CreepGuardCheck, CheckTriggers, StateUpdate, MonitoringUpdate,
           LedUpdate, SelfTestRuntime, WatchdogFeed, TimePasses, EsmInterrupt,
           MemoryCorruption, vars, rxVars
  <1> QED BY <1>1, <1>2, <1>3, <1>4, <1>5, <1>6

-----------------------------------------------------------------------------
(* The plausibility checks *)

\* Without torque and current on the bus no debounce ever starts.
DriveCause ==
    "drive" \notin hyp.kinds =>
        /\ plaus.debounce = 0 /\ plaus.backup_cutoff_counter = 0 /\ plaus.creep_debounce = 0
        /\ ~plaus.faulted /\ ~plaus.creep_faulted

LEMMA NothingExpected == lookup_expected_current(0) = 0 /\ ~is_implausible(0, 0)
  BY DEF lookup_expected_current, is_implausible, PlausAbsThresholdMa, PlausRelThreshold

LEMMA DriveCauseStep ==
  ASSUME RxInv, DriveInv, FrameCause, DriveCause, [Next]_vars
  PROVE  DriveCause'
  <1>1. hyp' = hyp
    BY DEF Next, MainStep, SelfTestStartup, EnergizeRelay, WaitForTick, ReceiveMailbox,
           MailboxEmpty, RejectFrame, AcceptFrame, ReceiveDone, HeartbeatMonitor,
           PlausibilityCheck, CreepGuardCheck, CheckTriggers, StateUpdate, MonitoringUpdate,
           LedUpdate, MonitorBus, SelfTestRuntime, WatchdogFeed, TimePasses, EsmInterrupt,
           MemoryCorruption, WatchdogReset, vars
  <1> SUFFICES ASSUME "drive" \notin hyp.kinds
               PROVE  DriveCause'
    BY <1>1 DEF DriveCause
  <1>2. Torque \in {0, NoData} /\ Current \in {0, NoData}
    BY DEF FrameCause, Torque, Current, DriveMailboxes
  <1>3. /\ plaus \in PlausState /\ plaus.debounce = 0 /\ plaus.backup_cutoff_counter = 0
        /\ plaus.creep_debounce = 0 /\ ~plaus.faulted /\ ~plaus.creep_faulted
        /\ PlausDebounceTicks > 0 /\ BackupCutoffTicks > 0
    BY PlausAssumption DEF DriveInv, PlausInv, DriveCause
  <1>4. CASE PlausibilityCheck
    <2>1. plaus' = SC_Plausibility_Check(plaus, Torque, Current,
                                         SC_Heartbeat_IsBrakeFault(hb["FZC"]))
      BY <1>4 DEF PlausibilityCheck
    <2> DEFINE brake == SC_Heartbeat_IsBrakeFault(hb["FZC"])
    <2>2. DebounceAfter(plaus, Torque, Current) = 0
      BY <1>2, <1>3, NothingExpected DEF DebounceAfter, NoData
    <2>3. CutoffAfter(plaus, Current, brake) = 0
      BY <1>2 DEF CutoffAfter, NoData, BackupCutoffCurrentMa
    <2>4. CASE plaus.startup_grace > 0
      <3>1. plaus' = [plaus EXCEPT !.startup_grace = plaus.startup_grace - 1]
        BY <1>3, <2>1, <2>4 DEF SC_Plausibility_Check
      <3> QED BY <1>3, <3>1 DEF DriveCause, PlausState
    <2>5. CASE ~(plaus.startup_grace > 0)
      <3>1. plaus' = [plaus EXCEPT
                        !.debounce = DebounceAfter(plaus, Torque, Current),
                        !.backup_cutoff_counter = CutoffAfter(plaus, Current, brake),
                        !.faulted = \/ DebounceAfter(plaus, Torque, Current) >= PlausDebounceTicks
                                    \/ CutoffAfter(plaus, Current, brake) >= BackupCutoffTicks]
        BY <1>3, <2>1, <2>5 DEF SC_Plausibility_Check, DebounceAfter, CutoffAfter
      <3>2. ~(0 >= PlausDebounceTicks \/ 0 >= BackupCutoffTicks)
        BY <1>3, PlausAssumption
      <3>3. plaus' = [plaus EXCEPT !.debounce = 0, !.backup_cutoff_counter = 0, !.faulted = FALSE]
        BY <2>2, <2>3, <3>1, <3>2
      <3> QED BY <1>3, <3>3 DEF DriveCause, PlausState
    <2> QED BY <2>4, <2>5
  <1>5. CASE CreepGuardCheck
    <2>1. plaus' = SC_CreepGuard_Check(plaus, Torque, Current)
      BY <1>5 DEF CreepGuardCheck
    <2>2. ~(Current > CreepCurrentThresh)
      BY <1>2 DEF NoData, CreepCurrentThresh
    <2>3. plaus' = plaus \/ plaus' = [plaus EXCEPT !.creep_debounce = 0]
      BY <2>1, <2>2 DEF SC_CreepGuard_Check
    <2> QED BY <1>3, <2>3 DEF DriveCause, PlausState
  <1>6. CASE WatchdogReset
    BY <1>6 DEF WatchdogReset, DriveCause, SC_Plausibility_Init
  <1>7. CASE UNCHANGED plaus
    BY <1>1, <1>3, <1>7 DEF DriveCause
  <1>8. PlausibilityCheck \/ CreepGuardCheck \/ WatchdogReset \/ UNCHANGED plaus
    BY DEF Next, MainStep, SelfTestStartup, EnergizeRelay, WaitForTick, ReceiveMailbox,
           MailboxEmpty, RejectFrame, AcceptFrame, ReceiveDone, HeartbeatMonitor, CheckTriggers,
           StateUpdate, MonitoringUpdate, LedUpdate, MonitorBus, SelfTestRuntime, WatchdogFeed,
           TimePasses, EsmInterrupt, MemoryCorruption, vars, plausVars
  <1> QED BY <1>4, <1>5, <1>6, <1>7, <1>8

-----------------------------------------------------------------------------
(* The controller's own tests *)

\* A failed run-time test has its disturbance, and the lockstep error is only
\* active where the loop never evaluates its triggers again.
TestCause ==
    /\ ~selftest.runtime_healthy => {"flash", "ram", "dcan"} \cap hyp.kinds # {}
    /\ ~selftest.ram_intact => "ram" \in hyp.kinds
    /\ esm_error_active => pc = "esm_loop"

LEMMA TestCauseInit == Init => TestCause
  BY DEF Init, TestCause, SC_SelfTest_Init

LEMMA TestCauseStep == PowerInv /\ TestCause /\ [Next]_vars => TestCause'
  <1> SUFFICES ASSUME PowerInv, TestCause, [Next]_vars PROVE TestCause'
    OBVIOUS
  <1>0. selftest \in SelfTestState
    BY DEF PowerInv
  <1>1. CASE SelfTestRuntime
    <2>1. PICK flashOk \in (IF "flash" \in hyp.kinds THEN BOOLEAN ELSE {TRUE}),
               dcanOk \in (IF "dcan" \in hyp.kinds THEN BOOLEAN ELSE {TRUE}) :
              selftest' = SC_SelfTest_Runtime(selftest, flashOk, dcanOk)
      BY <1>1 DEF SelfTestRuntime
    <2>2. /\ pc = "selftest" /\ selftest.startup_passed /\ UNCHANGED <<esm_error_active, hyp>>
          /\ ~esm_error_active
      BY <1>1 DEF SelfTestRuntime, Goto, PowerInv, LoopSteps, TestCause
    <2> DEFINE tick == IF selftest.runtime_tick + 1 >= SelfTestPeriod
                       THEN 0 ELSE selftest.runtime_tick + 1
               failed == \/ tick = 1 /\ ~flashOk
                         \/ tick = SelfTestPeriod \div 4 /\ ~selftest.ram_intact
                         \/ tick = SelfTestPeriod \div 2 /\ ~dcanOk
    <2>3. failed => {"flash", "ram", "dcan"} \cap hyp.kinds # {}
      BY <2>1 DEF TestCause
    <2>4. selftest' = [selftest EXCEPT !.runtime_tick = tick,
                                       !.runtime_healthy = selftest.runtime_healthy /\ ~failed]
      BY <2>1, <2>2 DEF SC_SelfTest_Runtime
    <2> HIDE DEF tick, failed
    <2>5. /\ selftest'.runtime_healthy = (selftest.runtime_healthy /\ ~failed)
          /\ selftest'.ram_intact = selftest.ram_intact
      BY <1>0, <2>4 DEF SelfTestState
    <2> QED BY <2>2, <2>3, <2>5 DEF TestCause
  <1>2. CASE SelfTestStartup
    <2>1. \E ok \in BOOLEAN : selftest' = [selftest EXCEPT !.startup_passed = ok]
      BY <1>2 DEF SelfTestStartup
    <2>2. /\ selftest'.runtime_healthy = selftest.runtime_healthy
          /\ selftest'.ram_intact = selftest.ram_intact
      BY <1>0, <2>1 DEF SelfTestState
    <2>3. pc = "startup" /\ UNCHANGED <<esm_error_active, hyp>>
      BY <1>2 DEF SelfTestStartup
    <2> QED BY <2>2, <2>3 DEF TestCause
  <1>3. CASE MemoryCorruption
    <2>1. pc = "wait" /\ UNCHANGED <<pc, esm_error_active, hyp>>
      BY <1>3 DEF MemoryCorruption
    <2>2. \/ selftest' = [selftest EXCEPT !.canary_intact = FALSE]
          \/ "ram" \in hyp.kinds /\ selftest' = [selftest EXCEPT !.ram_intact = FALSE]
      BY <1>3 DEF MemoryCorruption
    <2>3. /\ selftest'.runtime_healthy = selftest.runtime_healthy
          /\ ~selftest'.ram_intact => ~selftest.ram_intact \/ "ram" \in hyp.kinds
      BY <1>0, <2>2 DEF SelfTestState
    <2> QED BY <2>1, <2>3 DEF TestCause
  <1>4. CASE EsmInterrupt
    BY <1>4 DEF EsmInterrupt, TestCause
  <1>5. CASE WatchdogReset
    BY <1>5 DEF WatchdogReset, TestCause, SC_SelfTest_Init
  <1>6. CASE UNCHANGED <<selftest, esm_error_active, hyp>> /\ (pc # "esm_loop" \/ UNCHANGED pc)
    BY <1>6 DEF TestCause
  <1>7. \/ SelfTestRuntime \/ SelfTestStartup \/ MemoryCorruption \/ EsmInterrupt
        \/ WatchdogReset
        \/ UNCHANGED <<selftest, esm_error_active, hyp>> /\ (pc # "esm_loop" \/ UNCHANGED pc)
    <2>1. CASE PassiveStep
      <3>1. pc # "esm_loop"
        BY <2>1, PassiveStepFrame DEF LoopSteps
      <3>2. UNCHANGED <<selftest, esm_error_active, hyp>>
        BY <2>1 DEF PassiveStep, WaitForTick, ReceiveMailbox, MailboxEmpty, RejectFrame,
                    AcceptFrame, ReceiveDone, HeartbeatMonitor, PlausibilityCheck,
                    CreepGuardCheck, StateUpdate, MonitoringUpdate, LedUpdate, MonitorBus,
                    WatchdogFeed
      <3> QED BY <3>1, <3>2
    <2>2. CASE EnergizeRelay \/ CheckTriggers
      BY <2>2 DEF EnergizeRelay, CheckTriggers, Goto
    <2>3. CASE TimePasses \/ UNCHANGED vars
      BY <2>3 DEF TimePasses, vars
    <2> QED BY <2>1, <2>2, <2>3, NextCases
  <1> QED BY <1>1, <1>2, <1>3, <1>4, <1>5, <1>6, <1>7

-----------------------------------------------------------------------------
(* The heartbeats and the bus *)

\* Every mailbox is heard in every iteration.
Heard == hyp.kinds \cap {"silent", "blackout", "e2e"} = {}

\* Then no timer passes one tick, and the silence of the bus ends before the
\* triggers are evaluated.
HeardInv ==
    Heard =>
        /\ \A e \in Ecus :
              /\ hb[e].counter <= 1 /\ ~hb[e].timed_out /\ ~hb[e].confirmed
              /\ pc = "receive" /\ e \notin rx_todo => hb[e].counter = 0
              /\ pc = "heartbeat" => hb[e].counter = 0
        /\ pc = "receive" /\ rx_todo # Mailboxes => any_valid
        /\ pc \in {"heartbeat", "plausibility", "creep", "relay"} => can.bus_silence_counter = 0

LEMMA HeardInvInit == Init => HeardInv
  BY DEF Init, HeardInv, SC_Heartbeat_Init

\* A step that leaves reception and supervision alone.
LEMMA HeardInvFrame ==
  ASSUME HeardInv, UNCHANGED <<hb, rx_todo, any_valid, can, hyp>>,
         \/ pc' = pc
         \/ pc' \notin {"receive", "heartbeat", "plausibility", "creep", "relay"}
         \/ pc \in {"plausibility", "creep"} /\ pc' \in {"creep", "relay"}
  PROVE  HeardInv'
  BY DEF HeardInv, Heard

LEMMA HeardReceive ==
  ASSUME RxInv, HbsInv, HeardInv, Heard, ReceiveMailbox
  PROVE  HeardInv'
  <1>1. PICK mb \in rx_todo : \/ MailboxEmpty(mb)
                              \/ \E f \in Frames(mb) : RejectFrame(mb, f) \/ AcceptFrame(mb, f)
    BY DEF ReceiveMailbox
  <1>2. ~MailboxEmpty(mb) /\ \A f \in Frames(mb) : ~RejectFrame(mb, f)
    BY FramesOfMailbox DEF MailboxEmpty, RejectFrame, Disturbed, Heard
  <1>3. PICK f \in Frames(mb) : AcceptFrame(mb, f)
    BY <1>1, <1>2
  <1>4. /\ pc = "receive" /\ pc' = pc /\ rx_todo' = rx_todo \ {mb} /\ any_valid' = TRUE
        /\ hyp' = hyp
    BY <1>3 DEF AcceptFrame, AtMailbox
  <1>5. ASSUME NEW e \in Ecus
        PROVE  /\ hb'[e].counter <= 1 /\ ~hb'[e].timed_out /\ ~hb'[e].confirmed
               /\ e \notin rx_todo' => hb'[e].counter = 0
    <2>1. /\ hb[e].counter <= 1 /\ ~hb[e].timed_out /\ ~hb[e].confirmed /\ HbInv(hb[e])
          /\ e \notin rx_todo => hb[e].counter = 0
      BY <1>4 DEF HeardInv, HbsInv
    <2>2. CASE mb # e
      <3>1. hb'[e] = hb[e]
        BY <1>3, <2>2 DEF AcceptFrame, HbsInv
      <3> QED BY <1>4, <2>1, <2>2, <3>1
    <2>3. CASE mb = e
      <3> DEFINE h == SC_Heartbeat_NotifyRx(hb[e])
                 g == SC_Heartbeat_ValidateContent(h, f.data)
      <3>1. hb'[e] = g
        BY <1>3, <2>3 DEF AcceptFrame, HbsInv
      <3>2. HbInv(h) /\ h.counter = 0 /\ ~h.timed_out /\ ~h.confirmed
        BY <2>1, NotifyRxInv DEF HbInv, HbState
      <3>3. f.data \in HbContent
        BY <1>3, <2>3, FramesType DEF RxInv, Mailboxes
      <3> HIDE DEF h
      <3>4. g.counter = 0 /\ ~g.timed_out /\ ~g.confirmed
        BY <3>2, <3>3, ValidateContentInv
      <3> QED BY <3>1, <3>4
    <2> QED BY <2>2, <2>3
  <1> QED BY <1>4, <1>5 DEF HeardInv

LEMMA HeardMonitor ==
  ASSUME HbTimeoutTicks > 1, HbsInv, HeardInv, Heard, HeartbeatMonitor
  PROVE  HeardInv'
  <1>1. /\ pc = "heartbeat" /\ pc' = "plausibility" /\ UNCHANGED <<can, hyp>>
    BY DEF HeartbeatMonitor, Goto, rxVars
  <1>2. ASSUME NEW e \in Ecus
        PROVE  hb'[e].counter <= 1 /\ ~hb'[e].timed_out /\ ~hb'[e].confirmed
    <2>1. /\ hb[e].counter = 0 /\ ~hb[e].timed_out /\ ~hb[e].confirmed /\ HbInv(hb[e])
      BY <1>1 DEF HeardInv, HbsInv
    <2>2. CASE hb_startup_grace > 0
      BY <2>1, <2>2 DEF HeartbeatMonitor
    <2>3. CASE ~(hb_startup_grace > 0)
      <3>1. hb'[e] = SC_Heartbeat_Monitor(hb[e])
        BY <2>3 DEF HeartbeatMonitor
      <3>2. hb'[e].counter = 1 /\ ~hb'[e].timed_out /\ hb'[e].confirmed = hb[e].confirmed
        BY <2>1, <3>1, MonitorInv, HbAssumption
      <3> QED BY <2>1, <3>2
    <2> QED BY <2>2, <2>3
  <1> QED BY <1>1, <1>2 DEF HeardInv

LEMMA HeardInvStep ==
  ASSUME HbTimeoutTicks > 1, RxInv, HbsInv, HeardInv, [Next]_vars
  PROVE  HeardInv'
  <1>0. hyp' = hyp
    BY DEF Next, MainStep, SelfTestStartup, EnergizeRelay, WaitForTick, ReceiveMailbox,
           MailboxEmpty, RejectFrame, AcceptFrame, ReceiveDone, HeartbeatMonitor,
           PlausibilityCheck, CreepGuardCheck, CheckTriggers, StateUpdate, MonitoringUpdate,
           LedUpdate, MonitorBus, SelfTestRuntime, WatchdogFeed, TimePasses, EsmInterrupt,
           MemoryCorruption, WatchdogReset, vars
  <1> SUFFICES ASSUME Heard PROVE HeardInv'
    BY <1>0 DEF HeardInv, Heard
  <1>1. CASE ReceiveMailbox
    BY <1>1, HeardReceive
  <1>2. CASE HeartbeatMonitor
    BY <1>2, HeardMonitor
  <1>3. CASE WaitForTick
    <2>1. /\ pc' = "receive" /\ rx_todo' = Mailboxes /\ hb' = hb /\ pc = "wait"
      BY <1>3 DEF WaitForTick, Goto, Heard, hbVars
    <2>2. Ecus \subseteq Mailboxes
      BY DEF Mailboxes
    <2> QED BY <2>1, <2>2 DEF HeardInv
  <1>4. CASE ReceiveDone
    <2>1. /\ pc = "receive" /\ pc' = "heartbeat" /\ rx_todo = {} /\ hb' = hb
      BY <1>4 DEF ReceiveDone, Goto, hbVars
    <2>2. any_valid
      BY <2>1 DEF HeardInv, Mailboxes
    <2>3. can'.bus_silence_counter = 0
      BY <1>4, <2>2 DEF ReceiveDone, RxInv, CanState
    <2> QED BY <2>1, <2>3 DEF HeardInv
  <1>5. CASE MonitorBus
    <2>1. pc' = "selftest" /\ hb' = hb
      BY <1>5 DEF MonitorBus, Goto, hbVars
    <2> QED BY <2>1 DEF HeardInv
  <1>6. CASE WatchdogReset
    BY <1>6 DEF WatchdogReset, HeardInv, SC_Heartbeat_Init
  <1>7. CASE \/ PlausibilityCheck \/ CreepGuardCheck \/ CheckTriggers \/ StateUpdate
             \/ MonitoringUpdate \/ LedUpdate \/ SelfTestRuntime \/ WatchdogFeed
    <2>1. UNCHANGED <<hb, rx_todo, any_valid, can, hyp>>
      BY <1>7 DEF PlausibilityCheck, CreepGuardCheck, CheckTriggers, StateUpdate,
                  MonitoringUpdate, LedUpdate, SelfTestRuntime, WatchdogFeed, rxVars, hbVars
    <2>2. \/ pc' \notin {"receive", "heartbeat", "plausibility", "creep", "relay"}
          \/ pc \in {"plausibility", "creep"} /\ pc' \in {"creep", "relay"}
      BY <1>7 DEF PlausibilityCheck, CreepGuardCheck, CheckTriggers, StateUpdate,
                  MonitoringUpdate, LedUpdate, SelfTestRuntime, WatchdogFeed, Goto
    <2> QED BY <2>1, <2>2, HeardInvFrame
  <1>8. CASE \/ SelfTestStartup \/ EnergizeRelay \/ TimePasses \/ EsmInterrupt
             \/ MemoryCorruption \/ UNCHANGED vars
    <2>1. UNCHANGED <<hb, rx_todo, any_valid, can, hyp>>
      BY <1>8 DEF SelfTestStartup, EnergizeRelay, TimePasses, EsmInterrupt, MemoryCorruption,
                  vars, rxVars, hbVars
    <2>2. \/ pc' = pc
          \/ pc' \notin {"receive", "heartbeat", "plausibility", "creep", "relay"}
      BY <1>8 DEF SelfTestStartup, EnergizeRelay, TimePasses, EsmInterrupt, MemoryCorruption,
                  vars, Goto
    <2> QED BY <2>1, <2>2, HeardInvFrame
  <1> QED BY <1>1, <1>2, <1>3, <1>4, <1>5, <1>6, <1>7, <1>8 DEF Next, MainStep

-----------------------------------------------------------------------------
(* The kill *)

\* Every trigger that can hold when the triggers are evaluated is explained.
LEMMA TriggersHaveCauses ==
  ASSUME PowerInv, FrameCause, DriveCause, TestCause, HeardInv, pc = "relay",
         NEW t \in ActiveTriggers
  PROVE  Explains(t) \cap hyp.kinds # {}
  <1>1. t \in {"ESTOP", "HB_TIMEOUT", "PLAUSIBILITY", "CREEP_GUARD", "E2E_FAIL",
               "SELFTEST", "ESM", "BUSOFF", "BUS_SILENCE"}
    BY DEF ActiveTriggers, Triggers, KillPriority
  <1>2. CASE t = "ESTOP"
    BY <1>2 DEF ActiveTriggers, FrameCause, Explains
  <1>3. CASE t = "HB_TIMEOUT"
    <2>1. ~Heard
      BY <1>3 DEF ActiveTriggers, HeardInv
    <2> QED BY <1>3, <2>1 DEF Heard, Explains
  <1>4. CASE t \in {"PLAUSIBILITY", "CREEP_GUARD"}
    BY <1>4 DEF ActiveTriggers, DriveCause, Explains
  <1>5. CASE t = "E2E_FAIL"
    <2>1. CriticalMailboxes \subseteq Mailboxes
      BY DEF CriticalMailboxes, Mailboxes
    <2> QED BY <1>5, <2>1 DEF ActiveTriggers, FrameCause, Explains
  <1>6. CASE t = "SELFTEST"
    <2>1. selftest.startup_passed
      BY DEF PowerInv, LoopSteps
    <2>2. ~selftest.runtime_healthy
      BY <1>6, <2>1 DEF ActiveTriggers, SC_SelfTest_IsHealthy
    <2> QED BY <1>6, <2>2 DEF TestCause, Explains
  <1>7. CASE t = "ESM"
    BY <1>7 DEF ActiveTriggers, TestCause
  <1>8. CASE t = "BUSOFF"
    BY <1>8 DEF ActiveTriggers, FrameCause, Explains
  <1>9. CASE t = "BUS_SILENCE"
    <2>1. ~Heard
      BY <1>9, ScAssumption DEF ActiveTriggers, HeardInv
    <2> QED BY <1>9, <2>1 DEF Heard, Explains
  <1> QED BY <1>1, <1>2, <1>3, <1>4, <1>5, <1>6, <1>7, <1>8, <1>9

\* The reason that is recorded is the first of the triggers, or a mismatch of
\* the readback, which without a disturbance is the level of the pin.
LEMMA KillHasCause ==
  ASSUME PowerInv, FrameCause, DriveCause, TestCause, HeardInv, TripHasCause, CheckTriggers
  PROVE  TripHasCause'
  <1>1. PICK readback \in (IF "readback" \in hyp.kinds THEN BOOLEAN ELSE {relay_pin}) :
            relay' = SC_Relay_CheckTriggers(relay, ActiveTriggers, readback)
    BY DEF CheckTriggers
  <1>2. /\ pc = "relay" /\ hyp' = hyp /\ relay \in RelayState
        /\ relay_pin = ~relay.killed /\ (~relay.killed => relay.commanded)
    BY DEF CheckTriggers, Goto, PowerInv, RelayInv, LoopSteps
  <1>3. CASE relay.killed
    <2>1. relay' = relay
      BY <1>1, <1>3 DEF SC_Relay_CheckTriggers
    <2> QED BY <1>2, <2>1 DEF TripHasCause, Explains
  <1>4. CASE ~relay.killed /\ ActiveTriggers # {}
    <2>1. relay' = SC_Relay_DeEnergize(relay, FirstReason(ActiveTriggers))
      BY <1>1, <1>4 DEF SC_Relay_CheckTriggers
    <2>2. FirstReason(ActiveTriggers) \in ActiveTriggers
          /\ FirstReason(ActiveTriggers) \in KillReasons
      BY <1>4, FirstReasonType DEF ActiveTriggers
    <2>3. relay'.kill_reason = FirstReason(ActiveTriggers)
      BY <1>2, <2>1, <2>2, DeEnergizeType
    <2>4. Explains(relay'.kill_reason) \cap hyp.kinds # {}
      BY <1>2, <2>2, <2>3, TriggersHaveCauses
    <2> QED BY <1>2, <2>4 DEF TripHasCause, Explains
  <1>5. CASE ~relay.killed /\ ActiveTriggers = {}
    <2> DEFINE mismatches == IF readback # relay.commanded
                             THEN relay.readback_mismatch_count + 1 ELSE 0
               counted == [relay EXCEPT !.readback_mismatch_count = mismatches]
    <2>1. relay' = IF mismatches >= ReadbackThreshold
                   THEN SC_Relay_DeEnergize(counted, "READBACK") ELSE counted
      BY <1>1, <1>5 DEF SC_Relay_CheckTriggers
    <2>2. counted.killed = relay.killed
      BY <1>2 DEF RelayState
    <2>3. CASE mismatches >= ReadbackThreshold
      <3>1. readback # relay.commanded
        BY <2>3, RelayAssumption
      <3>2. "readback" \in hyp.kinds
        BY <1>1, <1>2, <1>5, <3>1 DEF RelayState
      <3>3. relay'.kill_reason = "READBACK"
        BY <1>2, <2>1, <2>3 DEF SC_Relay_DeEnergize, RelayState
      <3> QED BY <1>2, <3>2, <3>3 DEF TripHasCause, Explains
    <2>4. CASE ~(mismatches >= ReadbackThreshold)
      <3>1. ~relay'.killed
        BY <1>5, <2>1, <2>2, <2>4
      <3> QED BY <3>1 DEF TripHasCause
    <2> QED BY <2>3, <2>4
  <1> QED BY <1>3, <1>4, <1>5

CauseInv == FrameCause /\ DriveCause /\ TestCause /\ HeardInv /\ TripHasCause

LEMMA CauseInvStep ==
  ASSUME HbTimeoutTicks > 1, IInv, DriveInv, CauseInv, [Next]_vars
  PROVE  CauseInv'
  <1>1. FrameCause' /\ DriveCause' /\ TestCause' /\ HeardInv'
    BY FrameCauseStep, DriveCauseStep, TestCauseStep, HeardInvStep DEF IInv, CauseInv
  <1>2. TripHasCause'
    <2>1. CASE CheckTriggers
      BY <2>1, KillHasCause DEF IInv, CauseInv
    <2>2. CASE WatchdogReset
      BY <2>2 DEF WatchdogReset, TripHasCause, SC_Relay_Init
    <2>3. CASE EnergizeRelay
      <3>1. relay' = SC_Relay_Energize(relay) /\ RelayInv(relay) /\ ~relay.killed
        BY <2>3 DEF EnergizeRelay, Goto, IInv, PowerInv, Starting
      <3>2. ~relay'.killed
        BY <3>1, EnergizeInv
      <3> QED BY <3>2 DEF TripHasCause
    <2>4. CASE UNCHANGED <<relay, hyp>>
      BY <2>4 DEF CauseInv, TripHasCause, Explains
    <2>5. CheckTriggers \/ WatchdogReset \/ EnergizeRelay \/ UNCHANGED <<relay, hyp>>
      BY DEF Next, MainStep, SelfTestStartup, WaitForTick, ReceiveMailbox, MailboxEmpty,
             RejectFrame, AcceptFrame, ReceiveDone, HeartbeatMonitor, PlausibilityCheck,
             CreepGuardCheck, StateUpdate, MonitoringUpdate, LedUpdate, MonitorBus,
             SelfTestRuntime, WatchdogFeed, TimePasses, EsmInterrupt, MemoryCorruption, vars,
             relayVars
    <2> QED BY <2>1, <2>2, <2>3, <2>4, <2>5
  <1> QED BY <1>1, <1>2 DEF CauseInv

\* No false trip: with a timeout that leaves a sender one tick to be heard
\* (SC_HB_TIMEOUT_TICKS above one), the relay is killed only for a reason that
\* the behaviour's faults explain, whatever the hypothesis.
THEOREM NoFalseTrips ==
  ASSUME HbTimeoutTicks > 1
  PROVE  Spec => []TripHasCause
  <1> DEFINE Inv == IInv /\ DriveInv /\ CauseInv
  <1>1. Init => Inv
    <2>1. Init => DriveCause /\ TripHasCause
      BY DEF Init, DriveCause, TripHasCause, SC_Plausibility_Init, SC_Relay_Init
    <2> QED BY <2>1, IInvInductive, DriveInvInit, FrameCauseInit, TestCauseInit, HeardInvInit
            DEF CauseInv
  <1>2. Inv /\ [Next]_vars => Inv'
    BY IInvInductive, DriveInvStep, CauseInvStep
  <1>3. Inv => TripHasCause
    BY DEF CauseInv
  <1> QED BY <1>1, <1>2, <1>3, PTL DEF Spec
=============================================================================
