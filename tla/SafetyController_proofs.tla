------------------------ MODULE SafetyController_proofs ------------------------
(***************************************************************************)
(* Proofs about SafetyController, for every set of supervised ECUs, every  *)
(* length of its timers and every fault hypothesis.                        *)
(***************************************************************************)
EXTENDS SafetyController, ScLemmas, WellFoundedInduction

-----------------------------------------------------------------------------
(* The operators of the controller's modules *)

LEMMA CountUpToType ==
  ASSUME NEW limit \in Nat, NEW n \in 0 .. limit
  PROVE  CountUpTo(limit, n) \in 0 .. limit
  BY DEF CountUpTo

\* Among the triggers that hold, one comes first.
LEMMA FirstReasonType ==
  ASSUME NEW active \in SUBSET Triggers, active # {}
  PROVE  FirstReason(active) \in active /\ FirstReason(active) \in KillReasons
  <1> DEFINE held == {i \in DOMAIN KillPriority : KillPriority[i] \in active}
  <1>1. DOMAIN KillPriority = 1 .. 9
    BY DEF KillPriority
  <1>2. held \subseteq Nat /\ held # {}
    BY <1>1 DEF Triggers
  <1>3. PICK i \in held : \A j \in held : ~(<<j, i>> \in OpToRel(<, Nat))
    BY <1>2, WFMin, NatLessThanWellFounded, Zenon
  <1>4. \A j \in held : i <= j
    <2> TAKE j \in held
    <2>1. j \in Nat /\ i \in Nat /\ ~(j < i)
      BY <1>2, <1>3, Zenon DEF OpToRel
    <2> QED BY <2>1
  <1>5. \E k \in DOMAIN KillPriority :
            /\ KillPriority[k] \in active
            /\ \A j \in DOMAIN KillPriority : KillPriority[j] \in active => k <= j
    BY <1>4
  <1> QED BY <1>5 DEF FirstReason, Triggers, KillReasons

\* An opened relay is latched, and stays a relay record.
LEMMA DeEnergizeType ==
  ASSUME NEW r \in RelayState, NEW reason \in KillReasons
  PROVE  /\ SC_Relay_DeEnergize(r, reason) \in RelayState
         /\ SC_Relay_DeEnergize(r, reason).killed = TRUE
         /\ SC_Relay_DeEnergize(r, reason).kill_reason = reason
  BY DEF SC_Relay_DeEnergize, RelayState

\* What holds of the relay record between two calls.
RelayInv(r) ==
    /\ r \in RelayState
    /\ ~r.killed => r.readback_mismatch_count < ReadbackThreshold
    /\ r.killed => r.kill_reason \in KillReasons

LEMMA RelayInitInv == RelayInv(SC_Relay_Init(FALSE))
  BY RelayAssumption DEF RelayInv, RelayState, SC_Relay_Init

LEMMA EnergizeInv ==
  ASSUME NEW r, RelayInv(r)
  PROVE  /\ RelayInv(SC_Relay_Energize(r))
         /\ SC_Relay_Energize(r).killed = r.killed
         /\ ~r.killed => SC_Relay_Energize(r).commanded = TRUE
  <1>1. CASE r.killed
    BY <1>1 DEF SC_Relay_Energize
  <1>2. CASE ~r.killed
    <2> SUFFICES ASSUME NEW s, s = [r EXCEPT !.commanded = TRUE]
                 PROVE  RelayInv(s) /\ s.killed = r.killed /\ s.commanded = TRUE
      BY <1>2 DEF SC_Relay_Energize
    <2> QED BY <1>2 DEF RelayInv, RelayState
  <1> QED BY <1>1, <1>2

\* The evaluation of the triggers keeps the relay record sound; it never clears
\* the latch, sets it whenever a trigger holds, and leaves the command of a
\* relay that it does not kill alone.
LEMMA CheckTriggersInv ==
  ASSUME NEW r, RelayInv(r), NEW active \in SUBSET Triggers, NEW readback \in BOOLEAN
  PROVE  /\ RelayInv(SC_Relay_CheckTriggers(r, active, readback))
         /\ r.killed => SC_Relay_CheckTriggers(r, active, readback) = r
         /\ active # {} => SC_Relay_CheckTriggers(r, active, readback).killed
         /\ ~SC_Relay_CheckTriggers(r, active, readback).killed
              => SC_Relay_CheckTriggers(r, active, readback).commanded = r.commanded
  <1> DEFINE mismatches == IF readback # r.commanded THEN r.readback_mismatch_count + 1 ELSE 0
             counted    == [r EXCEPT !.readback_mismatch_count = mismatches]
             result     == SC_Relay_CheckTriggers(r, active, readback)
  <1>1. CASE r.killed
    BY <1>1 DEF SC_Relay_CheckTriggers
  <1>2. CASE ~r.killed /\ active # {}
    <2>1. result = SC_Relay_DeEnergize(r, FirstReason(active))
      BY <1>2 DEF SC_Relay_CheckTriggers
    <2>2. r \in RelayState /\ FirstReason(active) \in KillReasons
      BY <1>2, FirstReasonType DEF RelayInv
    <2>3. result \in RelayState /\ result.killed /\ result.kill_reason \in KillReasons
      BY <2>1, <2>2, DeEnergizeType
    <2> QED BY <1>2, <2>3 DEF RelayInv
  <1>3. CASE ~r.killed /\ active = {}
    <2>1. mismatches \in 0 .. ReadbackThreshold
      BY <1>3, RelayAssumption DEF RelayInv, RelayState
    <2>2. result = IF mismatches >= ReadbackThreshold
                   THEN SC_Relay_DeEnergize(counted, "READBACK") ELSE counted
      BY <1>3 DEF SC_Relay_CheckTriggers
    <2>3. /\ counted \in RelayState /\ counted.killed = r.killed
          /\ counted.commanded = r.commanded /\ counted.readback_mismatch_count = mismatches
      <3> HIDE DEF mismatches
      <3> QED BY <2>1 DEF RelayInv, RelayState
    <2> HIDE DEF counted, mismatches
    <2>4. CASE mismatches >= ReadbackThreshold
      <3>1. result \in RelayState /\ result.killed /\ result.kill_reason \in KillReasons
        BY <2>2, <2>3, <2>4, DeEnergizeType DEF KillReasons
      <3> QED BY <1>3, <3>1 DEF RelayInv
    <2>5. CASE ~(mismatches >= ReadbackThreshold)
      BY <1>3, <2>1, <2>2, <2>3, <2>5, RelayAssumption DEF RelayInv
    <2> QED BY <2>4, <2>5
  <1> QED BY <1>1, <1>2, <1>3

\* The run-time self-test never takes the start-up result back.
LEMMA RuntimeType ==
  ASSUME NEW s \in SelfTestState, NEW flashOk \in BOOLEAN, NEW dcanOk \in BOOLEAN
  PROVE  /\ SC_SelfTest_Runtime(s, flashOk, dcanOk) \in SelfTestState
         /\ SC_SelfTest_Runtime(s, flashOk, dcanOk).startup_passed = s.startup_passed
  <1> DEFINE tick   == IF s.runtime_tick + 1 >= SelfTestPeriod THEN 0 ELSE s.runtime_tick + 1
             failed == \/ tick = 1 /\ ~flashOk
                       \/ tick = SelfTestPeriod \div 4 /\ ~s.ram_intact
                       \/ tick = SelfTestPeriod \div 2 /\ ~dcanOk
  <1>1. tick \in 0 .. SelfTestPeriod - 1
    BY RelayAssumption DEF SelfTestState
  <1> DEFINE healthy == s.runtime_healthy /\ ~failed
             result  == SC_SelfTest_Runtime(s, flashOk, dcanOk)
  <1>2. healthy \in BOOLEAN
    OBVIOUS
  <1>3. CASE ~s.startup_passed
    <2>1. result = [s EXCEPT !.runtime_healthy = FALSE]
      BY <1>3 DEF SC_SelfTest_Runtime
    <2> QED BY <2>1 DEF SelfTestState
  <1>4. CASE s.startup_passed
    <2>1. result = [s EXCEPT !.runtime_tick = tick, !.runtime_healthy = healthy]
      BY <1>4 DEF SC_SelfTest_Runtime
    <2> HIDE DEF tick, healthy, result
    <2>2. result \in SelfTestState /\ result.startup_passed = s.startup_passed
      BY <1>1, <1>2, <2>1 DEF SelfTestState
    <2> QED BY <2>2 DEF result
  <1> QED BY <1>3, <1>4

-----------------------------------------------------------------------------
(* The relay *)

Starting == {"startup", "energize", "fail_blink"}

\* The relay pin, the latch and the command agree with the place in the program:
\* open and not yet latched before the start-up is over, closed exactly while
\* not latched in the main loop, open in the lockstep interrupt.
PowerInv ==
    /\ pc \in Steps
    /\ RelayInv(relay) /\ relay_pin \in BOOLEAN /\ selftest \in SelfTestState
    /\ pc \in Starting => ~relay.killed /\ ~relay_pin
    /\ pc \in LoopSteps \cup {"energize"} => selftest.startup_passed
    /\ pc \in LoopSteps => /\ relay_pin = ~relay.killed
                           /\ ~relay.killed => relay.commanded
    /\ pc = "esm_loop" => ~relay_pin

\* The calls of the main loop that touch neither the relay nor the self-test.
PassiveStep ==
    \/ WaitForTick \/ ReceiveMailbox \/ ReceiveDone
    \/ HeartbeatMonitor \/ PlausibilityCheck \/ CreepGuardCheck
    \/ StateUpdate \/ MonitoringUpdate \/ LedUpdate \/ MonitorBus \/ WatchdogFeed

LEMMA PassiveStepFrame ==
  ASSUME PassiveStep
  PROVE  /\ pc \in LoopSteps /\ pc' \in LoopSteps
         /\ UNCHANGED <<relay, relay_pin, selftest>>
  <1>1. CASE WaitForTick
    BY <1>1 DEF WaitForTick, Goto, LoopSteps, relayVars
  <1>2. CASE ReceiveMailbox
    <2>1. PICK mb \in rx_todo : \/ MailboxEmpty(mb)
                                \/ \E f \in Frames(mb) : RejectFrame(mb, f) \/ AcceptFrame(mb, f)
      BY <1>2 DEF ReceiveMailbox
    <2> QED BY <2>1 DEF MailboxEmpty, RejectFrame, AcceptFrame, AtMailbox, LoopSteps, relayVars
  <1>3. CASE ReceiveDone
    BY <1>3 DEF ReceiveDone, Goto, LoopSteps, relayVars
  <1>4. CASE HeartbeatMonitor
    BY <1>4 DEF HeartbeatMonitor, Goto, LoopSteps, relayVars
  <1>5. CASE PlausibilityCheck \/ CreepGuardCheck
    BY <1>5 DEF PlausibilityCheck, CreepGuardCheck, Goto, LoopSteps, relayVars
  <1>6. CASE StateUpdate \/ MonitoringUpdate \/ LedUpdate \/ MonitorBus \/ WatchdogFeed
    BY <1>6 DEF StateUpdate, MonitoringUpdate, LedUpdate, MonitorBus, WatchdogFeed,
                Goto, LoopSteps, relayVars
  <1> QED BY <1>1, <1>2, <1>3, <1>4, <1>5, <1>6 DEF PassiveStep

\* The steps that are not passive.
LEMMA NextCases ==
  ASSUME [Next]_vars
  PROVE  \/ PassiveStep \/ SelfTestStartup \/ EnergizeRelay \/ CheckTriggers \/ SelfTestRuntime
         \/ TimePasses \/ EsmInterrupt \/ MemoryCorruption \/ WatchdogReset \/ UNCHANGED vars
  BY DEF Next, MainStep, PassiveStep

LEMMA PowerInvInit == Init => PowerInv
  <1> SUFFICES ASSUME Init PROVE PowerInv
    OBVIOUS
  <1>1. RelayInv(relay) /\ ~relay.killed
    BY RelayInitInv DEF Init, SC_Relay_Init
  <1>2. selftest \in SelfTestState
    BY RelayAssumption DEF Init, SC_SelfTest_Init, SelfTestState
  <1> QED BY <1>1, <1>2 DEF Init, PowerInv, Steps, LoopSteps

\* What the evaluation of the triggers does to the relay and its pin.
LEMMA CheckTriggersEffect ==
  ASSUME PowerInv, CheckTriggers
  PROVE  /\ RelayInv(relay') /\ relay_pin' \in BOOLEAN
         /\ relay_pin' = ~relay'.killed /\ (~relay'.killed => relay'.commanded)
         /\ relay.killed => relay' = relay
         /\ ActiveTriggers # {} => relay'.killed
  <1>1. PICK readback \in BOOLEAN :
            relay' = SC_Relay_CheckTriggers(relay, ActiveTriggers, readback)
    BY DEF CheckTriggers, PowerInv
  <1>2. ActiveTriggers \in SUBSET Triggers /\ RelayInv(relay)
    BY DEF ActiveTriggers, PowerInv
  <1>3. /\ RelayInv(relay') /\ (relay.killed => relay' = relay)
        /\ ActiveTriggers # {} => relay'.killed
        /\ ~relay'.killed => relay'.commanded = relay.commanded
    BY <1>1, <1>2, CheckTriggersInv
  <1>4. /\ pc = "relay" /\ relay_pin = ~relay.killed /\ (~relay.killed => relay.commanded)
        /\ relay_pin' = (relay_pin /\ (relay.killed \/ ~relay'.killed))
    BY DEF CheckTriggers, Goto, PowerInv, LoopSteps
  <1>5. relay.killed \in BOOLEAN /\ relay'.killed \in BOOLEAN
    BY <1>2, <1>3 DEF RelayInv, RelayState
  <1> QED BY <1>3, <1>4, <1>5

LEMMA PowerInvStep == PowerInv /\ [Next]_vars => PowerInv'
  <1> SUFFICES ASSUME PowerInv, [Next]_vars PROVE PowerInv'
    OBVIOUS
  <1>1. CASE PassiveStep
    BY <1>1, PassiveStepFrame DEF PowerInv, Starting, LoopSteps, Steps
  <1>2. CASE SelfTestStartup
    <2>1. PICK ok \in BOOLEAN : /\ selftest' = [selftest EXCEPT !.startup_passed = ok]
                                /\ pc' = IF ok THEN "energize" ELSE "fail_blink"
      BY <1>2 DEF SelfTestStartup
    <2>2. selftest' \in SelfTestState /\ selftest'.startup_passed = ok
      BY <2>1 DEF PowerInv, SelfTestState
    <2>3. pc = "startup" /\ UNCHANGED <<relay, relay_pin>>
      BY <1>2 DEF SelfTestStartup, relayVars
    <2> QED BY <2>1, <2>2, <2>3 DEF PowerInv, Starting, LoopSteps, Steps
  <1>3. CASE EnergizeRelay
    <2>1. /\ pc = "energize" /\ pc' = "wait" /\ UNCHANGED selftest
          /\ relay' = SC_Relay_Energize(relay) /\ relay_pin' = (relay_pin \/ ~relay.killed)
      BY <1>3 DEF EnergizeRelay, Goto
    <2>2. RelayInv(relay') /\ relay'.killed = FALSE /\ relay'.commanded = TRUE
      BY <2>1, EnergizeInv DEF PowerInv, Starting, RelayInv, RelayState
    <2> QED BY <2>1, <2>2 DEF PowerInv, Starting, LoopSteps, Steps
  <1>4. CASE CheckTriggers
    <2>1. pc = "relay" /\ pc' = "state" /\ UNCHANGED selftest
      BY <1>4 DEF CheckTriggers, Goto
    <2> QED BY <1>4, <2>1, CheckTriggersEffect DEF PowerInv, Starting, LoopSteps, Steps
  <1>5. CASE SelfTestRuntime
    <2>1. PICK flashOk \in BOOLEAN, dcanOk \in BOOLEAN :
              selftest' = SC_SelfTest_Runtime(selftest, flashOk, dcanOk)
      BY <1>5 DEF SelfTestRuntime
    <2>2. selftest' \in SelfTestState /\ selftest'.startup_passed = selftest.startup_passed
      BY <2>1, RuntimeType DEF PowerInv
    <2>3. pc = "selftest" /\ pc' = "feed" /\ UNCHANGED <<relay, relay_pin>>
      BY <1>5 DEF SelfTestRuntime, Goto, relayVars
    <2> QED BY <2>2, <2>3 DEF PowerInv, Starting, LoopSteps, Steps
  <1>6. CASE TimePasses \/ UNCHANGED vars
    <2>1. UNCHANGED <<pc, relay, relay_pin, selftest>>
      BY <1>6 DEF TimePasses, vars, relayVars
    <2> QED BY <2>1 DEF PowerInv
  <1>7. CASE EsmInterrupt
    BY <1>7 DEF EsmInterrupt, PowerInv, Starting, LoopSteps, Steps
  <1>8. CASE MemoryCorruption
    <2>1. pc = "wait" /\ UNCHANGED <<pc, relay, relay_pin>>
      BY <1>8 DEF MemoryCorruption, relayVars
    <2>2. \/ selftest' = [selftest EXCEPT !.canary_intact = FALSE]
          \/ selftest' = [selftest EXCEPT !.ram_intact = FALSE]
      BY <1>8 DEF MemoryCorruption
    <2>3. selftest' \in SelfTestState /\ selftest'.startup_passed = selftest.startup_passed
      BY <2>2 DEF PowerInv, SelfTestState
    <2> QED BY <2>1, <2>3 DEF PowerInv, Starting, LoopSteps, Steps
  <1>9. CASE WatchdogReset
    <2>1. RelayInv(relay') /\ ~relay'.killed
      BY <1>9, RelayInitInv DEF WatchdogReset, SC_Relay_Init
    <2>2. selftest' \in SelfTestState
      BY <1>9, RelayAssumption DEF WatchdogReset, SC_SelfTest_Init, SelfTestState
    <2> QED BY <1>9, <2>1, <2>2 DEF WatchdogReset, PowerInv, Starting, LoopSteps, Steps
  <1> QED BY <1>1, <1>2, <1>3, <1>4, <1>5, <1>6, <1>7, <1>8, <1>9, NextCases

\* The relay is closed only on the strength of a passed start-up test, while
\* commanded and never with the kill latch set.
THEOREM RelayNeedsHealth == Spec => []ClosedOnlyWhenHealthy
  <1>1. PowerInv => ClosedOnlyWhenHealthy
    BY DEF PowerInv, ClosedOnlyWhenHealthy, Starting, LoopSteps, Steps
  <1> QED BY PowerInvInit, PowerInvStep, <1>1, PTL DEF Spec

\* The controller keeps its promise about the kill relay: it closes the relay
\* once per start, and what opens it keeps it open until the next start.
THEOREM ImplementsKillRelay == Spec => KeepsPromise
  <1>1. Init => Promise!Init
    BY DEF Init, Promise!Init, SC_Relay_Init
  <1>2. PowerInv /\ [Next]_vars => [Promise!Next]_(Promise!krVars)
    <2> SUFFICES ASSUME PowerInv, [Next]_vars
                 PROVE  Promise!Next \/ UNCHANGED Promise!krVars
      OBVIOUS
    <2> USE DEF Promise!Next, Promise!krVars, PowerInv, Starting, LoopSteps, Steps
    <2>1. CASE PassiveStep
      BY <2>1, PassiveStepFrame
    <2>2. CASE SelfTestStartup
      BY <2>2 DEF SelfTestStartup, relayVars
    <2>3. CASE EnergizeRelay
      <3>1. /\ pc = "energize" /\ pc' = "wait" /\ relay' = SC_Relay_Energize(relay)
            /\ relay_pin' = (relay_pin \/ ~relay.killed)
        BY <2>3 DEF EnergizeRelay, Goto
      <3>2. relay'.killed = relay.killed
        BY <3>1, EnergizeInv
      <3> QED BY <3>1, <3>2 DEF Promise!Close
    <2>4. CASE CheckTriggers
      <3>1. pc = "relay" /\ pc' = "state"
        BY <2>4 DEF CheckTriggers, Goto
      <3> QED BY <2>4, <3>1, CheckTriggersEffect DEF Promise!Trip
    <2>5. CASE SelfTestRuntime
      BY <2>5 DEF SelfTestRuntime, Goto, relayVars
    <2>6. CASE TimePasses \/ MemoryCorruption \/ UNCHANGED vars
      BY <2>6 DEF TimePasses, MemoryCorruption, vars, relayVars
    <2>7. CASE EsmInterrupt
      BY <2>7 DEF EsmInterrupt, Promise!Halt
    <2>8. CASE WatchdogReset
      BY <2>8 DEF WatchdogReset, SC_Relay_Init, Promise!Restart
    <2> QED BY <2>1, <2>2, <2>3, <2>4, <2>5, <2>6, <2>7, <2>8, NextCases
  <1> QED BY PowerInvInit, PowerInvStep, <1>1, <1>2, PTL DEF Spec, KeepsPromise, Promise!Spec

-----------------------------------------------------------------------------
(* Reception *)

CanState == [msg : [DriveMailboxes -> Nat \cup {NoData}], bus_silence_counter : 0 .. BusSilenceTicks,
             bus_off : BOOLEAN, estop_active : BOOLEAN]

RxInv ==
    /\ rx_todo \subseteq Mailboxes /\ any_valid \in BOOLEAN
    /\ e2e \in [Mailboxes -> E2eState] /\ can \in CanState
    /\ hyp \in FaultHypotheses

\* Whatever the disturbance, a frame in a mailbox has an alive number and a
\* payload of that mailbox.
LEMMA FramesType ==
  ASSUME RxInv, NEW mb \in Mailboxes, NEW f \in Frames(mb)
  PROVE  /\ f.alive \in Alive
         /\ mb \in DriveMailboxes => f.data \in Nat
         /\ mb = "ESTOP" => f.data \in BOOLEAN
         /\ mb \in Ecus => f.data \in HbContent
  <1>1. f.alive \in Alive /\ f.data \in Payloads(mb)
    <2>1. CASE Disturbed("e2e", mb)
      BY <2>1 DEF Frames, Frame
    <2>2. CASE ~Disturbed("e2e", mb)
      <3>1. NextAlive(e2e[mb].last_alive) \in Alive
        BY NextAliveType DEF RxInv, E2eState
      <3> QED BY <2>2, <3>1 DEF Frames
    <2> QED BY <2>1, <2>2
  <1>2. CASE mb = "ESTOP"
    <2>1. mb \notin DriveMailboxes /\ mb \notin Ecus
      BY <1>2, ScAssumption DEF DriveMailboxes
    <2>2. Payloads(mb) \subseteq BOOLEAN
      BY <1>2 DEF Payloads
    <2> QED BY <1>1, <1>2, <2>1, <2>2
  <1>3. CASE mb \in DriveMailboxes
    <2>1. mb # "ESTOP" /\ mb \notin Ecus
      BY <1>3, ScAssumption DEF DriveMailboxes
    <2>2. Payloads(mb) \subseteq Nat
      BY <1>3, ScAssumption DEF Payloads, DriveMailboxes
    <2> QED BY <1>1, <2>1, <2>2
  <1>4. CASE mb \in Ecus
    <2>1. mb # "ESTOP" /\ mb # "VEHICLE_STATE" /\ mb # "MOTOR_CURRENT" /\ mb \notin DriveMailboxes
      BY <1>4, ScAssumption DEF DriveMailboxes
    <2>2. NominalContent \in HbContent
      BY DEF NominalContent, HbContent
    <2>3. Payloads(mb) \subseteq HbContent
      BY <2>1, <2>2, ScAssumption DEF Payloads
    <2> QED BY <1>1, <2>1, <2>3
  <1> QED BY <1>2, <1>3, <1>4 DEF Mailboxes, DriveMailboxes

LEMMA RxInvInit == Init => RxInv
  <1> SUFFICES ASSUME Init PROVE RxInv
    OBVIOUS
  <1>1. e2e \in [Mailboxes -> E2eState]
    BY E2eInitType DEF Init
  <1>2. CanInit \in CanState
    BY ScAssumption DEF CanInit, CanState, NoData
  <1> QED BY <1>1, <1>2 DEF Init, RxInv

\* What the reception of one mailbox does.
LEMMA ReceiveMailboxEffect ==
  ASSUME RxInv, ReceiveMailbox
  PROVE  /\ RxInv' /\ can'.bus_off = can.bus_off
         /\ \/ UNCHANGED <<hb, quiet, led>>
            \/ \E mb \in Ecus, content \in HbContent :
                  /\ hb' = [hb EXCEPT ![mb] =
                              SC_Heartbeat_ValidateContent(SC_Heartbeat_NotifyRx(@), content)]
                  /\ led' = [led EXCEPT ![mb] = @ /\ ~Recovers(hb[mb])]
                  /\ quiet' = [quiet EXCEPT ![mb] = 0]
  <1>1. PICK mb \in rx_todo : \/ MailboxEmpty(mb)
                              \/ \E f \in Frames(mb) : RejectFrame(mb, f) \/ AcceptFrame(mb, f)
    BY DEF ReceiveMailbox
  <1>2. mb \in Mailboxes
    BY <1>1 DEF RxInv
  <1>3. CASE MailboxEmpty(mb)
    BY <1>3 DEF MailboxEmpty, AtMailbox, RxInv, hbVars, outVars
  <1>4. ASSUME NEW f \in Frames(mb), RejectFrame(mb, f)
        PROVE  RxInv' /\ UNCHANGED <<hb, quiet, led>> /\ can'.bus_off = can.bus_off
    <2>1. SC_E2E_Check(e2e[mb], f) \in E2eState
      BY <1>2, FramesType, E2eCheckType DEF RxInv
    <2> QED BY <1>2, <1>4, <2>1 DEF RejectFrame, AtMailbox, RxInv, hbVars, outVars
  <1>5. ASSUME NEW f \in Frames(mb), AcceptFrame(mb, f)
        PROVE  RxInv' /\ can'.bus_off = can.bus_off
    <2>1. SC_E2E_Check(e2e[mb], f) \in E2eState
      BY <1>2, FramesType, E2eCheckType DEF RxInv
    <2>2. can' \in CanState /\ can'.bus_off = can.bus_off
      <3>1. CASE mb \in DriveMailboxes
        <4>1. f.data \in Nat
          BY <1>2, <3>1, FramesType
        <4>2. can' = [can EXCEPT !.msg = [can.msg EXCEPT ![mb] = f.data]]
          BY <1>5, <3>1 DEF AcceptFrame
        <4>3. [can.msg EXCEPT ![mb] = f.data] \in [DriveMailboxes -> Nat \cup {NoData}]
          BY <3>1, <4>1 DEF RxInv, CanState
        <4> QED BY <4>2, <4>3 DEF RxInv, CanState
      <3>2. CASE mb \notin DriveMailboxes /\ mb = "ESTOP"
        <4>1. f.data \in BOOLEAN
          BY <1>2, <3>2, FramesType
        <4>2. can' = [can EXCEPT !.estop_active = f.data]
          BY <1>5, <3>2 DEF AcceptFrame
        <4> QED BY <4>1, <4>2 DEF RxInv, CanState
      <3>3. CASE mb \notin DriveMailboxes /\ mb # "ESTOP"
        BY <1>5, <3>3 DEF AcceptFrame, RxInv
      <3> QED BY <3>1, <3>2, <3>3
    <2> QED BY <1>2, <1>5, <2>1, <2>2 DEF AcceptFrame, AtMailbox, RxInv
  <1>6. ASSUME NEW f \in Frames(mb), AcceptFrame(mb, f)
        PROVE  \/ UNCHANGED <<hb, quiet, led>>
               \/ \E m \in Ecus, content \in HbContent :
                    /\ hb' = [hb EXCEPT ![m] =
                                SC_Heartbeat_ValidateContent(SC_Heartbeat_NotifyRx(@), content)]
                    /\ led' = [led EXCEPT ![m] = @ /\ ~Recovers(hb[m])]
                    /\ quiet' = [quiet EXCEPT ![m] = 0]
    <2>1. CASE mb \in Ecus
      BY <1>2, <1>6, <2>1, FramesType DEF AcceptFrame
    <2>2. CASE mb \notin Ecus
      BY <1>6, <2>2 DEF AcceptFrame
    <2> QED BY <2>1, <2>2
  <1> QED BY <1>1, <1>3, <1>4, <1>5, <1>6

LEMMA RxInvStep == RxInv /\ [Next]_vars => RxInv'
  <1> SUFFICES ASSUME RxInv, [Next]_vars PROVE RxInv'
    OBVIOUS
  <1>1. CASE ReceiveMailbox
    BY <1>1, ReceiveMailboxEffect
  <1>2. CASE WaitForTick
    BY <1>2 DEF WaitForTick, RxInv
  <1>3. CASE ReceiveDone
    <2>1. can' \in CanState
      BY <1>3, ScAssumption DEF ReceiveDone, RxInv, CanState
    <2> QED BY <1>3, <2>1 DEF ReceiveDone, RxInv
  <1>4. CASE MonitorBus
    <2>1. PICK off \in BOOLEAN :
              can' = [can EXCEPT !.bus_silence_counter = CountUpTo(BusSilenceTicks, @),
                                 !.bus_off = off]
      BY <1>4 DEF MonitorBus
    <2>2. CountUpTo(BusSilenceTicks, can.bus_silence_counter) \in 0 .. BusSilenceTicks
      BY CountUpToType, ScAssumption DEF RxInv, CanState
    <2>3. can' \in CanState
      BY <2>1, <2>2 DEF RxInv, CanState
    <2> QED BY <1>4, <2>3 DEF MonitorBus, RxInv
  <1>5. CASE WatchdogReset
    <2>1. e2e' \in [Mailboxes -> E2eState] /\ can' \in CanState
      BY <1>5, E2eInitType, ScAssumption DEF WatchdogReset, CanInit, CanState, NoData
    <2> QED BY <1>5, <2>1 DEF WatchdogReset, RxInv
  <1>6. CASE UNCHANGED <<rxVars, hyp>>
    BY <1>6 DEF rxVars, RxInv
  <1>7. \/ ReceiveMailbox \/ WaitForTick \/ ReceiveDone \/ MonitorBus \/ WatchdogReset
        \/ UNCHANGED <<rxVars, hyp>>
    BY DEF Next, MainStep, SelfTestStartup, EnergizeRelay, HeartbeatMonitor, PlausibilityCheck,
           CreepGuardCheck, CheckTriggers, StateUpdate, MonitoringUpdate, LedUpdate,
           SelfTestRuntime, WatchdogFeed, TimePasses, EsmInterrupt, MemoryCorruption, vars
  <1> QED BY <1>1, <1>2, <1>3, <1>4, <1>5, <1>6, <1>7

-----------------------------------------------------------------------------
(* The heartbeats *)

\* The payload of a heartbeat does not reach into the timeout supervision.
LEMMA ValidateContentInv ==
  ASSUME NEW h, HbInv(h), NEW content \in HbContent
  PROVE  /\ HbInv(SC_Heartbeat_ValidateContent(h, content))
         /\ SC_Heartbeat_ValidateContent(h, content).counter = h.counter
         /\ SC_Heartbeat_ValidateContent(h, content).confirmed = h.confirmed
         /\ SC_Heartbeat_ValidateContent(h, content).timed_out = h.timed_out
  <1> DEFINE stuck    == IF content.mode \in StuckModes
                         THEN CountUpTo(HbStuckDegradedMax, h.stuck_degraded_cnt) ELSE 0
             escalate == IF Cardinality(content.faults) >= 2
                         THEN CountUpTo(HbFaultEscalateMax, h.fault_escalate_cnt) ELSE 0
             fault    == \/ h.content_fault \/ stuck >= HbStuckDegradedMax
                         \/ escalate >= HbFaultEscalateMax
             g        == SC_Heartbeat_ValidateContent(h, content)
  <1>1. h \in HbState /\ content.faults \in SUBSET FaultBits
    BY DEF HbInv, HbContent
  <1>2. stuck \in 0 .. HbStuckDegradedMax /\ escalate \in 0 .. HbFaultEscalateMax
    BY <1>1, CountUpToType, HbAssumption DEF HbState
  <1>3. fault \in BOOLEAN
    OBVIOUS
  <1>4. g = [h EXCEPT !.last_fault_status = content.faults, !.stuck_degraded_cnt = stuck,
                      !.fault_escalate_cnt = escalate, !.content_fault = fault]
    BY DEF SC_Heartbeat_ValidateContent
  <1> HIDE DEF stuck, escalate, fault, g
  <1>5. /\ g \in HbState /\ g.counter = h.counter /\ g.timed_out = h.timed_out
        /\ g.confirm_counter = h.confirm_counter /\ g.confirmed = h.confirmed
        /\ g.recovery_count = h.recovery_count
    BY <1>1, <1>2, <1>3, <1>4 DEF HbState
  <1>6. HbInv(g)
    BY <1>5 DEF HbInv
  <1> QED BY <1>5, <1>6 DEF g

\* Every record is sound, and the timer of an ECU that is not confirmed dead is
\* never behind the silence it measures.
HbsInv ==
    /\ hb \in [Ecus -> HbState] /\ quiet \in [Ecus -> 0 .. HbTimeoutTicks + HbConfirmTicks]
    /\ hb_startup_grace \in 0 .. StartupGraceTicks
    /\ \A e \in Ecus : HbInv(hb[e]) /\ (~hb[e].confirmed => quiet[e] <= hb[e].counter)

LEMMA HbsInvInit == Init => HbsInv
  <1> SUFFICES ASSUME Init PROVE HbsInv
    OBVIOUS
  <1>1. HbInv(SC_Heartbeat_Init) /\ SC_Heartbeat_Init \in HbState
    BY HbInitInv DEF HbInv
  <1>2. SC_Heartbeat_Init.counter = 0
    BY DEF SC_Heartbeat_Init
  <1> QED BY <1>1, <1>2, HbAssumption, PlausAssumption DEF Init, HbsInv

LEMMA HbsInvStep == RxInv /\ HbsInv /\ [Next]_vars => HbsInv'
  <1> SUFFICES ASSUME RxInv, HbsInv, [Next]_vars PROVE HbsInv'
    OBVIOUS
  <1>1. CASE ReceiveMailbox
    <2>1. UNCHANGED hb_startup_grace
      BY <1>1 DEF ReceiveMailbox, MailboxEmpty, RejectFrame, AcceptFrame, hbVars
    <2>2. CASE UNCHANGED <<hb, quiet, led>>
      BY <2>1, <2>2 DEF HbsInv
    <2>3. ASSUME NEW mb \in Ecus, NEW content \in HbContent,
                 hb' = [hb EXCEPT ![mb] =
                          SC_Heartbeat_ValidateContent(SC_Heartbeat_NotifyRx(@), content)],
                 quiet' = [quiet EXCEPT ![mb] = 0]
          PROVE  HbsInv'
      <3> DEFINE h == SC_Heartbeat_NotifyRx(hb[mb])
                 g == SC_Heartbeat_ValidateContent(h, content)
      <3>1. HbInv(h) /\ h.counter = 0
        BY NotifyRxInv DEF HbsInv
      <3> HIDE DEF h
      <3>2. HbInv(g) /\ g.counter = 0
        BY <3>1, ValidateContentInv
      <3>3. hb' = [hb EXCEPT ![mb] = g]
        BY <2>3 DEF h
      <3> HIDE DEF g
      <3>4. g \in HbState
        BY <3>2 DEF HbInv
      <3> QED BY <2>1, <2>3, <3>2, <3>3, <3>4, HbAssumption DEF HbsInv
    <2> QED BY <1>1, <2>2, <2>3, ReceiveMailboxEffect
  <1>2. CASE HeartbeatMonitor /\ hb_startup_grace > 0
    BY <1>2, PlausAssumption DEF HeartbeatMonitor, HbsInv
  <1>3. CASE HeartbeatMonitor /\ ~(hb_startup_grace > 0)
    <2>1. /\ hb' = [e \in Ecus |-> SC_Heartbeat_Monitor(hb[e])]
          /\ quiet' = [e \in Ecus |-> CountUpTo(HbTimeoutTicks + HbConfirmTicks, quiet[e])]
          /\ UNCHANGED hb_startup_grace
      BY <1>3 DEF HeartbeatMonitor
    <2>2. ASSUME NEW e \in Ecus
          PROVE  /\ HbInv(hb'[e]) /\ hb'[e] \in HbState
                 /\ quiet'[e] \in 0 .. HbTimeoutTicks + HbConfirmTicks
                 /\ ~hb'[e].confirmed => quiet'[e] <= hb'[e].counter
      <3>1. hb'[e] = SC_Heartbeat_Monitor(hb[e]) /\ HbInv(hb[e])
        BY <2>1 DEF HbsInv
      <3>2. /\ HbInv(hb'[e]) /\ (hb[e].confirmed => hb'[e].confirmed)
            /\ ~hb[e].confirmed => hb'[e].counter = hb[e].counter + 1
        BY <3>1, MonitorInv
      <3>3. quiet'[e] = CountUpTo(HbTimeoutTicks + HbConfirmTicks, quiet[e])
        BY <2>1
      <3>4. hb[e].counter \in Nat /\ hb'[e] \in HbState
        BY <3>1, <3>2, HbAssumption DEF HbInv, HbState
      <3>5. quiet[e] \in 0 .. HbTimeoutTicks + HbConfirmTicks
        BY DEF HbsInv
      <3>6. ~hb'[e].confirmed => quiet'[e] <= hb'[e].counter
        <4> SUFFICES ASSUME ~hb'[e].confirmed PROVE quiet'[e] <= hb'[e].counter
          OBVIOUS
        <4>1. quiet[e] <= hb[e].counter /\ hb'[e].counter = hb[e].counter + 1
          BY <3>2 DEF HbsInv
        <4> QED BY <3>3, <3>4, <3>5, <4>1, HbAssumption DEF CountUpTo
      <3> QED BY <3>2, <3>3, <3>4, <3>5, <3>6, CountUpToType, HbAssumption
    <2> QED BY <2>1, <2>2 DEF HbsInv
  <1>4. CASE WatchdogReset
    <2>1. HbInv(SC_Heartbeat_Init) /\ SC_Heartbeat_Init \in HbState
      BY HbInitInv DEF HbInv
    <2>2. SC_Heartbeat_Init.counter = 0
      BY DEF SC_Heartbeat_Init
    <2> QED BY <1>4, <2>1, <2>2, HbAssumption, PlausAssumption DEF WatchdogReset, HbsInv
  <1>5. CASE UNCHANGED hbVars
    BY <1>5 DEF hbVars, HbsInv
  <1>6. ReceiveMailbox \/ HeartbeatMonitor \/ WatchdogReset \/ UNCHANGED hbVars
    BY DEF Next, MainStep, SelfTestStartup, EnergizeRelay, WaitForTick, ReceiveDone,
           PlausibilityCheck, CreepGuardCheck, CheckTriggers, StateUpdate, MonitoringUpdate,
           LedUpdate, MonitorBus, SelfTestRuntime, WatchdogFeed, TimePasses, EsmInterrupt,
           MemoryCorruption, vars
  <1> QED BY <1>1, <1>2, <1>3, <1>4, <1>5, <1>6

-----------------------------------------------------------------------------
(* Triggers that hold after the evaluation have killed *)

\* From the evaluation of the triggers to the end of the iteration, an active
\* E-stop or a confirmed timeout goes with the kill latch.
TriggersInv ==
    pc \in Evaluated =>
        /\ can.estop_active => relay.killed
        /\ \A e \in Ecus : hb[e].confirmed => relay.killed

LEMMA TriggersInvStep ==
  ASSUME PowerInv, RxInv, TriggersInv, [Next]_vars
  PROVE  TriggersInv'
  <1> USE DEF Evaluated
  <1>1. CASE CheckTriggers
    <2>1. UNCHANGED <<can, hb>>
      BY <1>1 DEF CheckTriggers, rxVars, hbVars
    <2>2. can.estop_active => "ESTOP" \in ActiveTriggers
      BY DEF ActiveTriggers, Triggers, KillPriority
    <2>3. (\E e \in Ecus : hb[e].confirmed) => "HB_TIMEOUT" \in ActiveTriggers
      BY DEF ActiveTriggers, Triggers, KillPriority
    <2> QED BY <1>1, <2>1, <2>2, <2>3, CheckTriggersEffect DEF TriggersInv
  <1>2. CASE MonitorBus
    <2>1. can'.estop_active = can.estop_active /\ pc = "bus"
      BY <1>2 DEF MonitorBus, Goto, RxInv, CanState
    <2>2. UNCHANGED <<hb, relay>>
      BY <1>2 DEF MonitorBus, hbVars, relayVars
    <2> QED BY <2>1, <2>2 DEF TriggersInv
  <1>3. CASE StateUpdate \/ MonitoringUpdate \/ LedUpdate \/ SelfTestRuntime
    <2>1. pc \in Evaluated /\ UNCHANGED <<can, hb, relay>>
      BY <1>3 DEF StateUpdate, MonitoringUpdate, LedUpdate, SelfTestRuntime, Goto,
                  rxVars, hbVars, relayVars
    <2> QED BY <2>1 DEF TriggersInv
  <1>4. CASE TimePasses \/ MemoryCorruption \/ UNCHANGED vars
    <2>1. UNCHANGED <<pc, can, hb, relay>>
      BY <1>4 DEF TimePasses, MemoryCorruption, vars, rxVars, hbVars, relayVars
    <2> QED BY <2>1 DEF TriggersInv
  <1>5. CASE pc' \notin Evaluated
    BY <1>5 DEF TriggersInv
  <1>6. \/ CheckTriggers \/ MonitorBus \/ StateUpdate \/ MonitoringUpdate \/ LedUpdate
        \/ SelfTestRuntime \/ TimePasses \/ MemoryCorruption \/ UNCHANGED vars
        \/ pc' \notin Evaluated
    <2>1. CASE ReceiveMailbox
      BY <2>1 DEF ReceiveMailbox, MailboxEmpty, RejectFrame, AcceptFrame, AtMailbox
    <2> QED BY <2>1 DEF Next, MainStep, SelfTestStartup, EnergizeRelay, WaitForTick, ReceiveDone,
                        HeartbeatMonitor, PlausibilityCheck, CreepGuardCheck, WatchdogFeed,
                        EsmInterrupt, WatchdogReset, Goto
  <1> QED BY <1>1, <1>2, <1>3, <1>4, <1>5, <1>6

\* The inductive invariant of the controller.
IInv == PowerInv /\ RxInv /\ HbsInv /\ TriggersInv

LEMMA IInvInductive == (Init => IInv) /\ (IInv /\ [Next]_vars => IInv')
  <1>1. Init => TriggersInv
    BY DEF Init, TriggersInv, Evaluated
  <1> QED BY <1>1, PowerInvInit, PowerInvStep, RxInvInit, RxInvStep, HbsInvInit, HbsInvStep,
             TriggersInvStep DEF IInv

\* A latched relay is open wherever the program is.
LEMMA KilledIsOpen == PowerInv /\ pc \in Evaluated /\ relay.killed => ~relay_pin
  BY DEF PowerInv, Evaluated, LoopSteps

\* A valid E-stop frame opens the relay in the iteration that receives it.
THEOREM EStopOpensRelay == Spec => []EStopCutsPower
  <1>1. IInv => EStopCutsPower
    BY KilledIsOpen DEF IInv, TriggersInv, EStopCutsPower
  <1> QED BY IInvInductive, <1>1, PTL DEF Spec

\* An ECU that has been silent for the timeout and the confirmation time has
\* lost its motor power by the end of the same iteration.
THEOREM DeadEcuOpensRelay == Spec => []DeadEcuCutsPower
  <1>1. IInv => DeadEcuCutsPower
    <2> SUFFICES ASSUME IInv, NEW e \in Ecus, pc \in Evaluated,
                        quiet[e] >= HbTimeoutTicks + HbConfirmTicks
                 PROVE  ~relay_pin
      BY DEF DeadEcuCutsPower
    <2>1. HbInv(hb[e]) /\ (~hb[e].confirmed => quiet[e] <= hb[e].counter)
          /\ quiet[e] \in 0 .. HbTimeoutTicks + HbConfirmTicks
      BY DEF IInv, HbsInv
    <2>2. hb[e].confirmed
      BY <2>1, HbAssumption DEF HbInv, HbState
    <2>3. relay.killed
      BY <2>2 DEF IInv, TriggersInv
    <2> QED BY <2>3, KilledIsOpen DEF IInv
  <1> QED BY IInvInductive, <1>1, PTL DEF Spec

-----------------------------------------------------------------------------
(* The plausibility checks *)

\* A debounce that has not raised its fault has not reached its threshold.
PlausInv(p) ==
    /\ p \in PlausState
    /\ ~p.faulted => p.debounce < PlausDebounceTicks /\ p.backup_cutoff_counter < BackupCutoffTicks
    /\ ~p.creep_faulted => p.creep_debounce < CreepDebounceCycles

LEMMA PlausInitInv == PlausInv(SC_Plausibility_Init)
  BY PlausAssumption DEF PlausInv, PlausState, SC_Plausibility_Init

\* The two counters of SC_Plausibility_Check after a call that evaluates them.
DebounceAfter(p, torque, current) ==
    IF ~(torque # NoData /\ current # NoData) THEN p.debounce
    ELSE IF is_implausible(lookup_expected_current(torque), current) THEN p.debounce + 1 ELSE 0

CutoffAfter(p, current, brakeFault) ==
    IF current # NoData /\ brakeFault /\ current > BackupCutoffCurrentMa
    THEN p.backup_cutoff_counter + 1 ELSE 0

\* One call of SC_Plausibility_Check: the record stays sound, the creep guard's
\* part is left alone, and as long as no fault is raised the counters are those
\* above, or the old ones during the start-up grace.
LEMMA PlausCheckInv ==
  ASSUME NEW p, PlausInv(p), NEW torque, NEW current, NEW brakeFault
  PROVE  LET q == SC_Plausibility_Check(p, torque, current, brakeFault)
         IN  /\ PlausInv(q)
             /\ q.creep_faulted = p.creep_faulted /\ q.creep_debounce = p.creep_debounce
             /\ ~q.faulted /\ p.startup_grace > 0 =>
                  /\ ~p.faulted /\ q.debounce = p.debounce
                  /\ q.backup_cutoff_counter = p.backup_cutoff_counter
             /\ ~q.faulted /\ ~(p.startup_grace > 0) =>
                  /\ ~p.faulted /\ q.debounce = DebounceAfter(p, torque, current)
                  /\ q.backup_cutoff_counter = CutoffAfter(p, current, brakeFault)
  <1> DEFINE debounce == DebounceAfter(p, torque, current)
             cutoff   == CutoffAfter(p, current, brakeFault)
             fault    == debounce >= PlausDebounceTicks \/ cutoff >= BackupCutoffTicks
             q        == SC_Plausibility_Check(p, torque, current, brakeFault)
  <1>0. p \in PlausState
    BY DEF PlausInv
  <1>1. CASE p.faulted
    BY <1>1 DEF SC_Plausibility_Check
  <1>2. CASE ~p.faulted /\ p.startup_grace > 0
    <2>1. q = [p EXCEPT !.startup_grace = p.startup_grace - 1]
      BY <1>2 DEF SC_Plausibility_Check
    <2> HIDE DEF q
    <2>2. p.startup_grace - 1 \in 0 .. StartupGraceTicks
      BY <1>0, <1>2, PlausAssumption DEF PlausState
    <2>3. /\ q \in PlausState /\ q.faulted = p.faulted /\ q.debounce = p.debounce
          /\ q.backup_cutoff_counter = p.backup_cutoff_counter
          /\ q.creep_faulted = p.creep_faulted /\ q.creep_debounce = p.creep_debounce
      BY <1>0, <2>1, <2>2 DEF PlausState
    <2>4. PlausInv(q)
      BY <2>3 DEF PlausInv
    <2> QED BY <1>2, <2>3, <2>4 DEF q
  <1>3. CASE ~p.faulted /\ ~(p.startup_grace > 0)
    <2>1. q = [p EXCEPT !.debounce = debounce, !.backup_cutoff_counter = cutoff,
                        !.faulted = fault]
      BY <1>3 DEF SC_Plausibility_Check, DebounceAfter, CutoffAfter
    <2>2. p.debounce < PlausDebounceTicks /\ p.backup_cutoff_counter < BackupCutoffTicks
      BY <1>3 DEF PlausInv
    <2>3. debounce \in 0 .. PlausDebounceTicks /\ cutoff \in 0 .. BackupCutoffTicks
      <3>1. p.debounce \in Nat /\ p.backup_cutoff_counter \in Nat
        BY <1>0, PlausAssumption DEF PlausState
      <3>2. debounce \in {p.debounce, p.debounce + 1, 0}
        BY DEF DebounceAfter
      <3>3. cutoff \in {p.backup_cutoff_counter + 1, 0}
        BY DEF CutoffAfter
      <3> HIDE DEF debounce, cutoff
      <3> QED BY <2>2, <3>1, <3>2, <3>3, PlausAssumption
    <2> HIDE DEF debounce, cutoff
    <2>4. ~fault => debounce < PlausDebounceTicks /\ cutoff < BackupCutoffTicks
      BY <2>3, PlausAssumption
    <2>5. fault \in BOOLEAN
      OBVIOUS
    <2> HIDE DEF fault, q
    <2>6. /\ q \in PlausState /\ q.faulted = fault /\ q.debounce = debounce
          /\ q.backup_cutoff_counter = cutoff
          /\ q.creep_faulted = p.creep_faulted /\ q.creep_debounce = p.creep_debounce
      BY <1>0, <2>1, <2>3, <2>5 DEF PlausState
    <2>7. PlausInv(q)
      BY <2>4, <2>6 DEF PlausInv
    <2> QED BY <1>3, <2>6, <2>7 DEF q, debounce, cutoff
  <1> QED BY <1>1, <1>2, <1>3

CreepGuardRests(p, torque, current) ==
    p.creep_faulted \/ p.startup_grace > 0 \/ torque = NoData \/ current = NoData

\* One call of SC_CreepGuard_Check: the record stays sound, the part of
\* SC_Plausibility_Check is left alone, and the debounce counts.
LEMMA CreepGuardInv ==
  ASSUME NEW p, PlausInv(p), NEW torque, NEW current
  PROVE  LET q == SC_CreepGuard_Check(p, torque, current)
         IN  /\ PlausInv(q)
             /\ q.faulted = p.faulted /\ q.debounce = p.debounce
             /\ q.backup_cutoff_counter = p.backup_cutoff_counter
             /\ ~q.creep_faulted /\ CreepGuardRests(p, torque, current) =>
                  ~p.creep_faulted /\ q.creep_debounce = p.creep_debounce
             /\ ~q.creep_faulted /\ ~CreepGuardRests(p, torque, current) =>
                  /\ ~p.creep_faulted
                  /\ q.creep_debounce = IF torque = 0 /\ current > CreepCurrentThresh
                                        THEN p.creep_debounce + 1 ELSE 0
  <1> DEFINE q        == SC_CreepGuard_Check(p, torque, current)
             creeping == torque = 0 /\ current > CreepCurrentThresh
             fault    == p.creep_debounce + 1 >= CreepDebounceCycles
  <1>0. p \in PlausState
    BY DEF PlausInv
  <1>1. CASE CreepGuardRests(p, torque, current)
    BY <1>1 DEF SC_CreepGuard_Check, CreepGuardRests
  <1>2. CASE ~CreepGuardRests(p, torque, current) /\ creeping
    <2>1. q = [p EXCEPT !.creep_debounce = p.creep_debounce + 1, !.creep_faulted = fault]
      BY <1>2 DEF SC_CreepGuard_Check, CreepGuardRests
    <2>2. /\ p.creep_debounce + 1 \in 0 .. CreepDebounceCycles
          /\ fault \in BOOLEAN /\ (~fault => p.creep_debounce + 1 < CreepDebounceCycles)
      BY <1>0, <1>2, PlausAssumption DEF PlausInv, PlausState, CreepGuardRests
    <2> HIDE DEF q, fault
    <2>3. /\ q \in PlausState /\ q.faulted = p.faulted /\ q.debounce = p.debounce
          /\ q.backup_cutoff_counter = p.backup_cutoff_counter
          /\ q.creep_faulted = fault /\ q.creep_debounce = p.creep_debounce + 1
      BY <1>0, <2>1, <2>2 DEF PlausState
    <2>4. PlausInv(q) /\ ~p.creep_faulted
      BY <1>2, <2>2, <2>3 DEF PlausInv, CreepGuardRests
    <2> QED BY <1>2, <2>3, <2>4 DEF q
  <1>3. CASE ~CreepGuardRests(p, torque, current) /\ ~creeping
    <2>1. q = [p EXCEPT !.creep_debounce = 0]
      BY <1>3 DEF SC_CreepGuard_Check, CreepGuardRests
    <2> HIDE DEF q
    <2>2. 0 \in 0 .. CreepDebounceCycles /\ 0 < CreepDebounceCycles
      BY PlausAssumption
    <2>3. /\ q \in PlausState /\ q.faulted = p.faulted /\ q.debounce = p.debounce
          /\ q.backup_cutoff_counter = p.backup_cutoff_counter
          /\ q.creep_faulted = p.creep_faulted /\ q.creep_debounce = 0
      BY <1>0, <2>1, <2>2 DEF PlausState
    <2>4. PlausInv(q) /\ ~p.creep_faulted
      BY <1>3, <2>2, <2>3 DEF PlausInv, CreepGuardRests
    <2> QED BY <1>3, <2>3, <2>4 DEF q
  <1> QED BY <1>1, <1>2, <1>3

SuspicionType == [implausible : 0 .. PlausDebounceTicks, braking : 0 .. BackupCutoffTicks,
                  creeping : 0 .. CreepDebounceCycles]

LEMMA ObserveType ==
  ASSUME NEW limit \in Nat, NEW n \in 0 .. limit, NEW seen \in BOOLEAN
  PROVE  Observe(seen, limit, n) \in 0 .. limit
  BY CountUpToType DEF Observe

DriveInv == PlausInv(plaus) /\ suspicion \in SuspicionType

LEMMA DriveInvInit == Init => DriveInv
  BY PlausInitInv, PlausAssumption DEF Init, DriveInv, NoSuspicion, SuspicionType

LEMMA DriveInvStep == DriveInv /\ [Next]_vars => DriveInv'
  <1> SUFFICES ASSUME DriveInv, [Next]_vars PROVE DriveInv'
    OBVIOUS
  <1>1. CASE PlausibilityCheck
    <2>1. PlausInv(plaus')
      BY <1>1, PlausCheckInv DEF PlausibilityCheck, DriveInv
    <2> DEFINE i == Observe(Implausible, PlausDebounceTicks, suspicion.implausible)
               b == Observe(Braking, BackupCutoffTicks, suspicion.braking)
    <2>2. i \in 0 .. PlausDebounceTicks /\ b \in 0 .. BackupCutoffTicks
      <3>1. Implausible \in BOOLEAN /\ Braking \in BOOLEAN
        BY DEF Implausible, Braking
      <3> QED BY <3>1, ObserveType, PlausAssumption DEF DriveInv, SuspicionType
    <2>3. \/ suspicion' = suspicion
          \/ suspicion' = [suspicion EXCEPT !.implausible = i, !.braking = b]
      BY <1>1 DEF PlausibilityCheck
    <2> HIDE DEF i, b
    <2>4. suspicion' \in SuspicionType
      BY <2>2, <2>3 DEF DriveInv, SuspicionType
    <2> QED BY <2>1, <2>4 DEF DriveInv
  <1>2. CASE CreepGuardCheck
    <2>1. PlausInv(plaus')
      BY <1>2, CreepGuardInv DEF CreepGuardCheck, DriveInv
    <2> DEFINE c == Observe(Creeping, CreepDebounceCycles, suspicion.creeping)
    <2>2. c \in 0 .. CreepDebounceCycles
      <3>1. Creeping \in BOOLEAN
        BY DEF Creeping
      <3> QED BY <3>1, ObserveType, PlausAssumption DEF DriveInv, SuspicionType
    <2>3. suspicion' = suspicion \/ suspicion' = [suspicion EXCEPT !.creeping = c]
      BY <1>2 DEF CreepGuardCheck
    <2> HIDE DEF c
    <2>4. suspicion' \in SuspicionType
      BY <2>2, <2>3 DEF DriveInv, SuspicionType
    <2> QED BY <2>1, <2>4 DEF DriveInv
  <1>3. CASE WatchdogReset
    BY <1>3, PlausInitInv, PlausAssumption DEF WatchdogReset, DriveInv, NoSuspicion, SuspicionType
  <1>4. CASE UNCHANGED plausVars
    BY <1>4 DEF plausVars, DriveInv
  <1>5. PlausibilityCheck \/ CreepGuardCheck \/ WatchdogReset \/ UNCHANGED plausVars
    BY DEF Next, MainStep, SelfTestStartup, EnergizeRelay, WaitForTick, ReceiveMailbox,
           MailboxEmpty, RejectFrame, AcceptFrame, ReceiveDone, HeartbeatMonitor, CheckTriggers,
           StateUpdate, MonitoringUpdate, LedUpdate, MonitorBus, SelfTestRuntime, WatchdogFeed,
           TimePasses, EsmInterrupt, MemoryCorruption, vars
  <1> QED BY <1>1, <1>2, <1>3, <1>4, <1>5

-----------------------------------------------------------------------------
(* The outputs, the watchdog and the operating state *)

OutInv ==
    /\ sc_state \in ScStates /\ esm_error_active \in BOOLEAN
    /\ led \in [Leds -> BOOLEAN] /\ mon_tick \in 0 .. MonitoringTxPeriod - 1
    /\ wdi \in BOOLEAN /\ tick_pending \in BOOLEAN /\ wdt \in 0 .. WatchdogTicks

LEMMA OutInvInit == Init => OutInv
  <1>1. 0 \in 0 .. MonitoringTxPeriod - 1 /\ 0 \in 0 .. WatchdogTicks
    BY ScAssumption
  <1> QED BY <1>1 DEF Init, OutInv, ScStates

LEMMA TransitionType ==
  ASSUME NEW state \in ScStates, NEW new \in ScStates
  PROVE  SC_State_Transition(state, new) \in ScStates
  BY DEF SC_State_Transition

LEMMA OutInvStep ==
  ASSUME RxInv, HbsInv, DriveInv, OutInv, [Next]_vars, HbsInv'
  PROVE  OutInv'
  <1>1. CASE HeartbeatMonitor
    <2>1. \A e \in Ecus : hb'[e].timed_out \in BOOLEAN
      BY DEF HbsInv, HbState
    <2>2. led' \in [Leds -> BOOLEAN]
      BY <1>1, <2>1 DEF HeartbeatMonitor, OutInv
    <2> QED BY <1>1, <2>2 DEF HeartbeatMonitor, OutInv, timeVars
  <1>2. CASE ReceiveMailbox
    <2>1. UNCHANGED <<sc_state, esm_error_active, mon_tick, timeVars>>
      BY <1>2 DEF ReceiveMailbox, MailboxEmpty, RejectFrame, AcceptFrame, outVars
    <2>2. led' = led \/ \E mb \in Ecus : led' = [led EXCEPT ![mb] = @ /\ ~Recovers(hb[mb])]
      BY <1>2, ReceiveMailboxEffect
    <2>3. led' \in [Leds -> BOOLEAN]
      BY <2>2 DEF OutInv, Leds, Recovers
    <2> QED BY <2>1, <2>3 DEF OutInv, timeVars
  <1>3. CASE PlausibilityCheck \/ CreepGuardCheck
    <2>1. led' \in [Leds -> BOOLEAN]
      BY <1>3 DEF PlausibilityCheck, CreepGuardCheck, OutInv, Leds
    <2> QED BY <1>3, <2>1 DEF PlausibilityCheck, CreepGuardCheck, OutInv, timeVars
  <1>4. CASE EnergizeRelay \/ StateUpdate
    <2>1. sc_state' \in ScStates
      BY <1>4, TransitionType DEF EnergizeRelay, StateUpdate, OutInv, ScStates
    <2> QED BY <1>4, <2>1 DEF EnergizeRelay, StateUpdate, OutInv, outVars, timeVars
  <1>5. CASE MonitoringUpdate
    <2>1. mon_tick' \in 0 .. MonitoringTxPeriod - 1
      BY <1>5, ScAssumption DEF MonitoringUpdate, OutInv
    <2> QED BY <1>5, <2>1 DEF MonitoringUpdate, OutInv, timeVars
  <1>6. CASE LedUpdate
    BY <1>6 DEF LedUpdate, OutInv, timeVars
  <1>7. CASE WaitForTick
    BY <1>7 DEF WaitForTick, OutInv, outVars
  <1>8. CASE WatchdogFeed
    <2>1. wdi' \in BOOLEAN
      BY <1>8 DEF WatchdogFeed, OutInv
    <2>2. wdt' = 0 \/ wdt' = wdt
      BY <1>8 DEF WatchdogFeed
    <2>3. wdt' \in 0 .. WatchdogTicks
      BY <2>2, ScAssumption DEF OutInv
    <2> QED BY <1>8, <2>1, <2>3 DEF WatchdogFeed, OutInv, outVars
  <1>9. CASE TimePasses
    <2>1. wdt' \in 0 .. WatchdogTicks
      BY <1>9, ScAssumption DEF TimePasses, OutInv
    <2>2. tick_pending' \in BOOLEAN
      BY <1>9 DEF TimePasses, OutInv
    <2> QED BY <1>9, <2>1, <2>2 DEF TimePasses, OutInv, outVars
  <1>10. CASE EsmInterrupt
    BY <1>10 DEF EsmInterrupt, OutInv, Leds, timeVars
  <1>11. CASE WatchdogReset
    <2>1. 0 \in 0 .. MonitoringTxPeriod - 1 /\ 0 \in 0 .. WatchdogTicks
      BY ScAssumption
    <2> QED BY <1>11, <2>1 DEF WatchdogReset, OutInv, ScStates
  <1>12. CASE UNCHANGED <<sc_state, esm_error_active, outVars, timeVars>>
    BY <1>12 DEF OutInv, outVars, timeVars
  <1>13. \/ HeartbeatMonitor \/ ReceiveMailbox \/ PlausibilityCheck \/ CreepGuardCheck
         \/ EnergizeRelay \/ StateUpdate \/ MonitoringUpdate \/ LedUpdate \/ WaitForTick
         \/ WatchdogFeed \/ TimePasses \/ EsmInterrupt \/ WatchdogReset
         \/ UNCHANGED <<sc_state, esm_error_active, outVars, timeVars>>
    BY DEF Next, MainStep, SelfTestStartup, ReceiveDone, CheckTriggers, MonitorBus,
           SelfTestRuntime, MemoryCorruption, vars
  <1> QED BY <1>1, <1>2, <1>3, <1>4, <1>5, <1>6, <1>7, <1>8, <1>9, <1>10, <1>11, <1>12, <1>13

\* Every variable stays within its type, for every instance of the constants.
THEOREM TypeCorrect == Spec => []TypeOK
  <1> DEFINE Inv == IInv /\ DriveInv /\ OutInv
  <1>1. Init => Inv
    BY IInvInductive, DriveInvInit, OutInvInit
  <1>2. Inv /\ [Next]_vars => Inv'
    <2> SUFFICES ASSUME Inv, [Next]_vars PROVE Inv'
      OBVIOUS
    <2>1. IInv' /\ DriveInv'
      BY IInvInductive, DriveInvStep
    <2> QED BY <2>1, OutInvStep DEF IInv
  <1>3. Inv => TypeOK
    BY DEF IInv, PowerInv, RxInv, HbsInv, DriveInv, OutInv, RelayInv, PlausInv, CanState,
           SuspicionType, TypeOK
  <1> QED BY <1>1, <1>2, <1>3, PTL DEF Spec

-----------------------------------------------------------------------------
(* The status frame *)

\* How the operating state follows the relay and the faults through an iteration.
StatusInv ==
    /\ pc = "energize" => sc_state = "INIT"
    /\ pc = "startup" => sc_state = "INIT"
    /\ pc \in LoopSteps => sc_state # "INIT"
    /\ sc_state = "KILL" => relay.killed
    /\ pc = "status" =>
         /\ relay.killed => sc_state = "KILL"
         /\ sc_state = "MONITORING" => ~plaus.faulted /\ \A e \in Ecus : ~EcuFault(e)
    /\ StatusIsTrue

LEMMA StatusInvInit == Init => StatusInv
  BY DEF Init, StatusInv, StatusIsTrue, LoopSteps

LEMMA StatusInvStep ==
  ASSUME PowerInv, OutInv, StatusInv, [Next]_vars, PowerInv'
  PROVE  StatusInv'
  <1> USE DEF StatusInv, LoopSteps
  <1>1. CASE StateUpdate
    <2>1. /\ pc = "state" /\ pc' = "status"
          /\ UNCHANGED <<relay, plaus, hb>>
          /\ sc_state' = IF relay.killed THEN SC_State_Transition(sc_state, "KILL")
                         ELSE IF plaus.faulted \/ \E e \in Ecus : EcuFault(e)
                         THEN SC_State_Transition(sc_state, "FAULT") ELSE sc_state
      BY <1>1 DEF StateUpdate, Goto, relayVars, plausVars, hbVars
    <2>2. sc_state \in {"MONITORING", "FAULT", "KILL"}
      BY <2>1 DEF OutInv, ScStates
    <2>3. CASE relay.killed
      <3>1. sc_state' = "KILL"
        BY <2>1, <2>2, <2>3 DEF SC_State_Transition, AllowedEdges
      <3> QED BY <2>1, <2>3, <3>1 DEF StatusIsTrue
    <2>4. CASE ~relay.killed /\ (plaus.faulted \/ \E e \in Ecus : EcuFault(e))
      <3>1. sc_state' = "FAULT"
        BY <2>1, <2>2, <2>4 DEF SC_State_Transition, AllowedEdges
      <3> QED BY <2>1, <2>4, <3>1 DEF StatusIsTrue
    <2>5. CASE ~relay.killed /\ ~(plaus.faulted \/ \E e \in Ecus : EcuFault(e))
      <3>1. sc_state' = sc_state
        BY <2>1, <2>5
      <3> QED BY <2>1, <2>5, <3>1 DEF StatusIsTrue, EcuFault
    <2> QED BY <2>3, <2>4, <2>5
  <1>2. CASE MonitoringUpdate
    <2>1. /\ pc = "status" /\ pc' = "led" /\ UNCHANGED <<relay, relay_pin, sc_state>>
          /\ tx' = StatusFrame \/ tx' = NoFrame
      BY <1>2 DEF MonitoringUpdate, Goto, relayVars
    <2>2. /\ StatusFrame.mode = IF sc_state = "KILL" THEN "SAFE_STOP" ELSE sc_state
          /\ StatusFrame.flags = {e \in Ecus : EcuFault(e)} \cup {p \in {"PLAUS"} : plaus.faulted}
          /\ StatusFrame.reason = IF relay.killed THEN relay.kill_reason ELSE "NONE"
          /\ StatusFrame.relay = ~relay.killed
      BY DEF StatusFrame
    <2>3. relay.killed => relay.kill_reason # "NONE"
      BY DEF PowerInv, RelayInv, KillReasons, Triggers, KillPriority
    <2>4. sc_state # "SAFE_STOP" /\ relay_pin = ~relay.killed
      BY <2>1 DEF OutInv, ScStates, PowerInv
    <2>5. StatusFrame.mode = "MONITORING" => StatusFrame.flags = {}
      BY <2>1, <2>2
    <2>6. tx' # NoFrame => /\ tx'.relay = relay_pin' /\ (tx'.mode = "SAFE_STOP" <=> relay'.killed)
                           /\ tx'.reason # "NONE" <=> relay'.killed
                           /\ tx'.mode = "MONITORING" => tx'.flags = {}
      <3> SUFFICES ASSUME tx' = StatusFrame
                   PROVE  /\ tx'.relay = relay_pin' /\ (tx'.mode = "SAFE_STOP" <=> relay'.killed)
                          /\ tx'.reason # "NONE" <=> relay'.killed
                          /\ tx'.mode = "MONITORING" => tx'.flags = {}
        BY <2>1
      <3> QED BY <2>1, <2>2, <2>3, <2>4, <2>5
    <2> QED BY <2>1, <2>6 DEF StatusIsTrue, NoFrame
  <1>3. CASE CheckTriggers
    <2>1. pc = "relay" /\ pc' = "state" /\ UNCHANGED sc_state
      BY <1>3 DEF CheckTriggers, Goto
    <2>2. relay.killed => relay'.killed
      BY <1>3, CheckTriggersEffect
    <2> QED BY <2>1, <2>2 DEF StatusIsTrue
  <1>4. CASE EnergizeRelay
    <2>1. pc' = "wait" /\ sc_state' = "MONITORING"
      BY <1>4 DEF EnergizeRelay, Goto, SC_State_Transition, AllowedEdges
    <2> QED BY <2>1 DEF StatusIsTrue
  <1>5. CASE SelfTestStartup
    BY <1>5 DEF SelfTestStartup, relayVars, StatusIsTrue
  <1>6. CASE EsmInterrupt \/ WatchdogReset
    BY <1>6 DEF EsmInterrupt, WatchdogReset, StatusIsTrue
  <1>7. CASE TimePasses \/ MemoryCorruption \/ UNCHANGED vars
    <2>1. UNCHANGED <<pc, relay, relay_pin, sc_state, plaus, hb, tx>>
      BY <1>7 DEF TimePasses, MemoryCorruption, vars, relayVars, plausVars, hbVars, outVars
    <2> QED BY <2>1 DEF StatusIsTrue, EcuFault, NoFrame
  <1>8. CASE PassiveStep /\ ~StateUpdate /\ ~MonitoringUpdate
    <2>1. UNCHANGED sc_state /\ pc' \notin {"status", "led"}
      <3>1. CASE ReceiveMailbox
        BY <3>1 DEF ReceiveMailbox, MailboxEmpty, RejectFrame, AcceptFrame, AtMailbox
      <3> QED BY <1>8, <3>1 DEF PassiveStep, WaitForTick, ReceiveDone, HeartbeatMonitor,
                 PlausibilityCheck, CreepGuardCheck, LedUpdate, MonitorBus, WatchdogFeed, Goto
    <2> QED BY <1>8, <2>1, PassiveStepFrame DEF StatusIsTrue
  <1>9. CASE SelfTestRuntime
    BY <1>9 DEF SelfTestRuntime, Goto, relayVars, StatusIsTrue
  <1> QED BY <1>1, <1>2, <1>3, <1>4, <1>5, <1>6, <1>7, <1>8, <1>9, NextCases

\* A status frame on the bus tells the truth about the relay pin, the latch and
\* the faults, at the moment it is sent.
THEOREM StatusFrameIsTrue == Spec => []StatusIsTrue
  <1> DEFINE Inv == IInv /\ DriveInv /\ OutInv /\ StatusInv
  <1>1. Init => Inv
    BY IInvInductive, DriveInvInit, OutInvInit, StatusInvInit
  <1>2. Inv /\ [Next]_vars => Inv'
    <2> SUFFICES ASSUME Inv, [Next]_vars PROVE Inv'
      OBVIOUS
    <2>1. IInv' /\ DriveInv'
      BY IInvInductive, DriveInvStep
    <2> QED BY <2>1, OutInvStep, StatusInvStep DEF IInv
  <1>3. Inv => StatusIsTrue
    BY DEF StatusInv
  <1> QED BY <1>1, <1>2, <1>3, PTL DEF Spec

-----------------------------------------------------------------------------
(* Drive faults *)

LEMMA LutOrder ==
  \A k \in 2 .. 16 :
      /\ TorquePctLut[k - 1] \in Nat /\ TorquePctLut[k] \in Nat
      /\ TorquePctLut[k - 1] < TorquePctLut[k]
      /\ CurrentMaLut[k - 1] \in Nat /\ CurrentMaLut[k] \in Nat
  BY DEF TorquePctLut, CurrentMaLut

\* The table covers every torque: the lookup never runs off its end and never
\* divides by zero.
LEMMA ExpectedCurrentType ==
  ASSUME NEW torque \in Nat
  PROVE  lookup_expected_current(torque) \in Int
  <1> DEFINE i == CHOOSE k \in 2 .. 16 : TorquePctLut[k - 1] < torque /\ torque <= TorquePctLut[k]
  <1>1. CASE torque = 0 \/ torque >= 100
    BY <1>1 DEF lookup_expected_current
  <1>2. CASE torque # 0 /\ torque < 100
    <2>1. i \in 2 .. 16
      <3>1. \E k \in 2 .. 16 : TorquePctLut[k - 1] < torque /\ torque <= TorquePctLut[k]
        BY <1>2 DEF TorquePctLut
      <3> QED BY <3>1
    <2>2. lookup_expected_current(torque) =
            CurrentMaLut[i - 1]
              + ((CurrentMaLut[i] - CurrentMaLut[i - 1]) * (torque - TorquePctLut[i - 1]))
                  \div (TorquePctLut[i] - TorquePctLut[i - 1])
      BY <1>2 DEF lookup_expected_current
    <2> HIDE DEF i
    <2>3. /\ CurrentMaLut[i - 1] \in Int /\ CurrentMaLut[i] \in Int /\ TorquePctLut[i - 1] \in Int
          /\ TorquePctLut[i] - TorquePctLut[i - 1] \in Int
          /\ TorquePctLut[i] - TorquePctLut[i - 1] > 0
      BY <2>1, LutOrder
    <2>4. \A a \in Int, d \in Int : d > 0 => a \div d \in Int
      OBVIOUS
    <2> QED BY <2>2, <2>3, <2>4
  <1> QED BY <1>1, <1>2

\* The code's two-sided comparison, with its two thresholds and its integer
\* division, sees every current that is off by more than 2 A and a fifth.
LEMMA ImplausibleIsSeen ==
  ASSUME NEW expected \in Int, NEW actual \in Nat, NEW off,
         off = IF actual > expected THEN actual - expected ELSE expected - actual,
         off > PlausAbsThresholdMa, 5 * off > expected
  PROVE  is_implausible(expected, actual)
  BY DEF is_implausible, PlausAbsThresholdMa, PlausRelThreshold

LEMMA StoredValues ==
  ASSUME RxInv
  PROVE  Torque \in Nat \cup {NoData} /\ Current \in Nat \cup {NoData}
  BY DEF RxInv, CanState, Torque, Current, DriveMailboxes

\* Until the relay is killed the code's debounce counters are level with what
\* has been visible on the bus, or ahead of it.
SuspicionInv ==
    /\ ~relay.killed /\ ~plaus.faulted =>
         /\ suspicion.implausible <= plaus.debounce
         /\ suspicion.braking <= plaus.backup_cutoff_counter
    /\ ~relay.killed /\ ~plaus.creep_faulted => suspicion.creeping <= plaus.creep_debounce
    /\ pc \in Evaluated /\ (plaus.faulted \/ plaus.creep_faulted) => relay.killed

\* A count that sees no more than the code's counter stays behind it.
LEMMA CountsBehind ==
  ASSUME NEW limit \in Nat, NEW n \in 0 .. limit, NEW m \in Nat, n <= m
  PROVE  CountUpTo(limit, n) <= m + 1
  BY DEF CountUpTo

LEMMA SuspicionInvInit == Init => SuspicionInv
  BY DEF Init, SuspicionInv, NoSuspicion, SC_Plausibility_Init, Evaluated

\* The implausibility and the braking are seen by one call of SC_Plausibility_Check.
LEMMA SuspicionPlausibility ==
  ASSUME RxInv, DriveInv, SuspicionInv, PlausibilityCheck
  PROVE  SuspicionInv'
  <1> DEFINE brakeFault == SC_Heartbeat_IsBrakeFault(hb["FZC"])
             i == Observe(Implausible, PlausDebounceTicks, suspicion.implausible)
             b == Observe(Braking, BackupCutoffTicks, suspicion.braking)
  <1>1. /\ pc = "plausibility" /\ pc' = "creep" /\ UNCHANGED relay
        /\ plaus' = SC_Plausibility_Check(plaus, Torque, Current, brakeFault)
        /\ suspicion' = IF plaus.startup_grace > 0 \/ relay.killed THEN suspicion
                        ELSE [suspicion EXCEPT !.implausible = i, !.braking = b]
    BY DEF PlausibilityCheck, Goto, relayVars
  <1>2. PlausInv(plaus) /\ suspicion \in SuspicionType
    BY DEF DriveInv
  <1>3. /\ plaus'.creep_faulted = plaus.creep_faulted
        /\ plaus'.creep_debounce = plaus.creep_debounce
        /\ ~plaus'.faulted /\ plaus.startup_grace > 0 =>
             /\ ~plaus.faulted /\ plaus'.debounce = plaus.debounce
             /\ plaus'.backup_cutoff_counter = plaus.backup_cutoff_counter
        /\ ~plaus'.faulted /\ ~(plaus.startup_grace > 0) =>
             /\ ~plaus.faulted /\ plaus'.debounce = DebounceAfter(plaus, Torque, Current)
             /\ plaus'.backup_cutoff_counter = CutoffAfter(plaus, Current, brakeFault)
    BY <1>1, <1>2, PlausCheckInv
  <1>4. plaus.debounce \in Nat /\ plaus.backup_cutoff_counter \in Nat
    BY <1>2, PlausAssumption DEF PlausInv, PlausState
  <1>5. /\ suspicion.implausible \in 0 .. PlausDebounceTicks
        /\ suspicion.braking \in 0 .. BackupCutoffTicks
    BY <1>2 DEF SuspicionType
  <1>6. ASSUME ~plaus.faulted, ~relay.killed
        PROVE  i <= DebounceAfter(plaus, Torque, Current)
    <2>1. DebounceAfter(plaus, Torque, Current) \in {plaus.debounce, plaus.debounce + 1, 0}
      BY DEF DebounceAfter
    <2>2. CASE Implausible
      <3>1. Torque \in Nat /\ Current \in Nat /\ Torque # NoData /\ Current # NoData
        BY <2>2, StoredValues DEF Implausible
      <3>2. is_implausible(lookup_expected_current(Torque), Current)
        BY <2>2, <3>1, ExpectedCurrentType, ImplausibleIsSeen DEF Implausible
      <3>3. DebounceAfter(plaus, Torque, Current) = plaus.debounce + 1
        BY <3>1, <3>2 DEF DebounceAfter
      <3>4. i = CountUpTo(PlausDebounceTicks, suspicion.implausible)
        BY <2>2 DEF Observe
      <3>5. suspicion.implausible <= plaus.debounce
        BY <1>6 DEF SuspicionInv
      <3> QED BY <1>4, <1>5, <3>3, <3>4, <3>5, CountsBehind, PlausAssumption
    <2>3. CASE ~Implausible
      BY <1>4, <2>1, <2>3 DEF Observe
    <2> QED BY <2>2, <2>3
  <1>7. ASSUME ~plaus.faulted, ~relay.killed
        PROVE  b <= CutoffAfter(plaus, Current, brakeFault)
    <2>1. CutoffAfter(plaus, Current, brakeFault) \in {plaus.backup_cutoff_counter + 1, 0}
      BY DEF CutoffAfter
    <2>2. CASE Braking
      <3>1. CutoffAfter(plaus, Current, brakeFault) = plaus.backup_cutoff_counter + 1
        BY <2>2 DEF Braking, CutoffAfter, NoData, BackupCutoffCurrentMa
      <3>2. b = CountUpTo(BackupCutoffTicks, suspicion.braking)
        BY <2>2 DEF Observe
      <3>3. suspicion.braking <= plaus.backup_cutoff_counter
        BY <1>7 DEF SuspicionInv
      <3> QED BY <1>4, <1>5, <3>1, <3>2, <3>3, CountsBehind, PlausAssumption
    <2>3. CASE ~Braking
      BY <1>4, <2>1, <2>3 DEF Observe
    <2> QED BY <2>2, <2>3
  <1> HIDE DEF i, b, brakeFault
  <1>8. CASE relay.killed
    BY <1>1, <1>8 DEF SuspicionInv
  <1>9. CASE ~relay.killed /\ plaus.startup_grace > 0
    <2>1. suspicion' = suspicion
      BY <1>1, <1>9
    <2> QED BY <1>1, <1>3, <1>9, <2>1 DEF SuspicionInv, Evaluated
  <1>10. CASE ~relay.killed /\ ~(plaus.startup_grace > 0)
    <2>1. /\ suspicion'.implausible = i /\ suspicion'.braking = b
          /\ suspicion'.creeping = suspicion.creeping
      BY <1>1, <1>2, <1>10 DEF SuspicionType
    <2> QED BY <1>1, <1>3, <1>6, <1>7, <1>10, <2>1 DEF SuspicionInv, Evaluated
  <1> QED BY <1>8, <1>9, <1>10

\* The creeping is seen by one call of SC_CreepGuard_Check.
LEMMA SuspicionCreep ==
  ASSUME RxInv, DriveInv, SuspicionInv, CreepGuardCheck
  PROVE  SuspicionInv'
  <1> DEFINE c == Observe(Creeping, CreepDebounceCycles, suspicion.creeping)
  <1>1. /\ pc = "creep" /\ pc' = "relay" /\ UNCHANGED relay
        /\ plaus' = SC_CreepGuard_Check(plaus, Torque, Current)
        /\ suspicion' = IF plaus.startup_grace > 0 \/ relay.killed THEN suspicion
                        ELSE [suspicion EXCEPT !.creeping = c]
    BY DEF CreepGuardCheck, Goto, relayVars
  <1>2. PlausInv(plaus) /\ suspicion \in SuspicionType
    BY DEF DriveInv
  <1>3. /\ plaus'.faulted = plaus.faulted /\ plaus'.debounce = plaus.debounce
        /\ plaus'.backup_cutoff_counter = plaus.backup_cutoff_counter
        /\ ~plaus'.creep_faulted /\ CreepGuardRests(plaus, Torque, Current) =>
             ~plaus.creep_faulted /\ plaus'.creep_debounce = plaus.creep_debounce
        /\ ~plaus'.creep_faulted /\ ~CreepGuardRests(plaus, Torque, Current) =>
             /\ ~plaus.creep_faulted
             /\ plaus'.creep_debounce = IF Torque = 0 /\ Current > CreepCurrentThresh
                                        THEN plaus.creep_debounce + 1 ELSE 0
    BY <1>1, <1>2, CreepGuardInv
  <1>4. plaus.creep_debounce \in Nat /\ suspicion.creeping \in 0 .. CreepDebounceCycles
    BY <1>2, PlausAssumption DEF PlausInv, PlausState, SuspicionType
  <1>5. CASE relay.killed
    BY <1>1, <1>5 DEF SuspicionInv
  <1>6. CASE ~relay.killed /\ plaus.startup_grace > 0
    <2>1. suspicion' = suspicion /\ CreepGuardRests(plaus, Torque, Current)
      BY <1>1, <1>6 DEF CreepGuardRests
    <2> QED BY <1>1, <1>3, <1>6, <2>1 DEF SuspicionInv, Evaluated
  <1>7. CASE ~relay.killed /\ ~(plaus.startup_grace > 0)
    <2>1. ASSUME ~plaus'.creep_faulted PROVE c <= plaus'.creep_debounce
      <3>1. CASE Creeping
        <4>1. ~plaus.creep_faulted
          BY <1>3, <2>1
        <4>2. ~CreepGuardRests(plaus, Torque, Current)
          BY <1>7, <3>1, <4>1 DEF Creeping, CreepGuardRests, NoData, CreepCurrentThresh
        <4>3. plaus'.creep_debounce = plaus.creep_debounce + 1
          BY <1>3, <2>1, <3>1, <4>2 DEF Creeping
        <4>4. c = CountUpTo(CreepDebounceCycles, suspicion.creeping)
          BY <3>1 DEF Observe
        <4>5. suspicion.creeping <= plaus.creep_debounce
          BY <1>7, <4>1 DEF SuspicionInv
        <4> QED BY <1>4, <4>3, <4>4, <4>5, CountsBehind, PlausAssumption
      <3>2. CASE ~Creeping
        <4>1. c = 0
          BY <3>2 DEF Observe
        <4>2. plaus'.creep_debounce \in Nat
          BY <1>1, <1>2, CreepGuardInv, PlausAssumption DEF PlausInv, PlausState
        <4> QED BY <4>1, <4>2
      <3> QED BY <3>1, <3>2
    <2> HIDE DEF c
    <2>2. /\ suspicion'.creeping = c /\ suspicion'.implausible = suspicion.implausible
          /\ suspicion'.braking = suspicion.braking
      BY <1>1, <1>2, <1>7 DEF SuspicionType
    <2> QED BY <1>1, <1>3, <1>7, <2>1, <2>2 DEF SuspicionInv, Evaluated
  <1> QED BY <1>5, <1>6, <1>7

LEMMA SuspicionInvStep ==
  ASSUME PowerInv, RxInv, DriveInv, SuspicionInv, [Next]_vars
  PROVE  SuspicionInv'
  <1>1. CASE PlausibilityCheck
    BY <1>1, SuspicionPlausibility
  <1>2. CASE CreepGuardCheck
    BY <1>2, SuspicionCreep
  <1>3. CASE CheckTriggers
    <2>1. pc = "relay" /\ UNCHANGED <<plaus, suspicion>>
      BY <1>3 DEF CheckTriggers, Goto, plausVars
    <2>2. /\ plaus.faulted => "PLAUSIBILITY" \in ActiveTriggers
          /\ plaus.creep_faulted => "CREEP_GUARD" \in ActiveTriggers
      BY DEF ActiveTriggers, Triggers, KillPriority
    <2>3. /\ relay.killed => relay'.killed
          /\ plaus.faulted \/ plaus.creep_faulted => relay'.killed
      BY <1>3, <2>2, CheckTriggersEffect
    <2> QED BY <2>1, <2>3 DEF SuspicionInv
  <1>4. CASE EnergizeRelay
    <2>1. relay'.killed = relay.killed /\ pc' = "wait" /\ UNCHANGED <<plaus, suspicion>>
      BY <1>4, EnergizeInv DEF EnergizeRelay, Goto, plausVars, PowerInv
    <2> QED BY <2>1 DEF SuspicionInv, Evaluated
  <1>5. CASE WatchdogReset
    BY <1>5 DEF WatchdogReset, SuspicionInv, NoSuspicion, SC_Plausibility_Init, Evaluated
  <1>6. CASE /\ UNCHANGED <<relay, plaus, suspicion>>
             /\ pc' \in Evaluated => pc \in Evaluated
    BY <1>6 DEF SuspicionInv
  <1>7. \/ PlausibilityCheck \/ CreepGuardCheck \/ CheckTriggers \/ EnergizeRelay \/ WatchdogReset
        \/ /\ UNCHANGED <<relay, plaus, suspicion>>
           /\ pc' \in Evaluated => pc \in Evaluated
    <2> USE DEF Evaluated, relayVars, plausVars
    <2>1. CASE ReceiveMailbox
      BY <2>1 DEF ReceiveMailbox, MailboxEmpty, RejectFrame, AcceptFrame, AtMailbox
    <2>2. CASE SelfTestStartup \/ WaitForTick \/ ReceiveDone \/ HeartbeatMonitor
      BY <2>2 DEF SelfTestStartup, WaitForTick, ReceiveDone, HeartbeatMonitor, Goto
    <2>3. CASE StateUpdate \/ MonitoringUpdate \/ LedUpdate \/ MonitorBus \/ SelfTestRuntime
               \/ WatchdogFeed
      BY <2>3 DEF StateUpdate, MonitoringUpdate, LedUpdate, MonitorBus, SelfTestRuntime,
                  WatchdogFeed, Goto
    <2>4. CASE TimePasses \/ EsmInterrupt \/ MemoryCorruption \/ UNCHANGED vars
      BY <2>4 DEF TimePasses, EsmInterrupt, MemoryCorruption, vars
    <2> QED BY <2>1, <2>2, <2>3, <2>4 DEF Next, MainStep
  <1> QED BY <1>1, <1>2, <1>3, <1>4, <1>5, <1>6, <1>7

\* A drive fault visible for its debounce time opens the relay in the iteration
\* that completes the debounce.
THEOREM DriveFaultOpensRelay == Spec => []DriveFaultCutsPower
  <1> DEFINE Inv == IInv /\ DriveInv /\ SuspicionInv
  <1>1. Init => Inv
    BY IInvInductive, DriveInvInit, SuspicionInvInit
  <1>2. Inv /\ [Next]_vars => Inv'
    <2> SUFFICES ASSUME Inv, [Next]_vars PROVE Inv'
      OBVIOUS
    <2>1. IInv' /\ DriveInv'
      BY IInvInductive, DriveInvStep
    <2> QED BY <2>1, SuspicionInvStep DEF IInv
  <1>3. Inv => DriveFaultCutsPower
    <2> SUFFICES ASSUME Inv, pc \in Evaluated, ~relay.killed
                 PROVE  /\ ~(suspicion.implausible >= PlausDebounceTicks)
                        /\ ~(suspicion.braking >= BackupCutoffTicks)
                        /\ ~(suspicion.creeping >= CreepDebounceCycles)
      BY KilledIsOpen DEF DriveFaultCutsPower, IInv
    <2>1. ~plaus.faulted /\ ~plaus.creep_faulted
      BY DEF SuspicionInv
    <2>2. /\ plaus \in PlausState /\ suspicion \in SuspicionType
          /\ plaus.debounce < PlausDebounceTicks
          /\ plaus.backup_cutoff_counter < BackupCutoffTicks
          /\ plaus.creep_debounce < CreepDebounceCycles
      BY <2>1 DEF DriveInv, PlausInv
    <2>3. /\ suspicion.implausible <= plaus.debounce
          /\ suspicion.braking <= plaus.backup_cutoff_counter
          /\ suspicion.creeping <= plaus.creep_debounce
      BY <2>1 DEF SuspicionInv
    <2> QED BY <2>2, <2>3, PlausAssumption DEF PlausState, SuspicionType
  <1> QED BY <1>1, <1>2, <1>3, PTL DEF Spec
=============================================================================
