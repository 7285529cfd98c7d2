--------------------------- MODULE SafetyController ---------------------------
(***************************************************************************)
(* The main loop of the Safety Controller (firmware/sc/src/sc_main.c) with *)
(* the modules it calls: every 10 ms tick it reads six CAN mailboxes,      *)
(* supervises the heartbeats and the torque/current plausibility, opens    *)
(* the kill relay when a trigger holds, reports its status and feeds the   *)
(* external watchdog if its own checks pass.                               *)
(*                                                                         *)
(* pc is the next call of the loop.  The lockstep interrupt, the passing   *)
(* of time and the watchdog reset interleave with the calls.  What may go  *)
(* wrong in one behaviour is a fault hypothesis drawn in the first state:  *)
(* the kinds of disturbance and the mailboxes they touch.  With the empty  *)
(* hypothesis every mailbox holds a fresh, valid, nominal frame in every   *)
(* iteration, so an iteration stands for one period of the senders.        *)
(***************************************************************************)
EXTENDS ScE2E, ScHeartbeat, ScPlausibility, ScRelay, FiniteSets

CONSTANTS
    Ecus,              \* the zone ECUs supervised, of {"CVC", "FZC", "RZC"}
    BusSilenceTicks,   \* SC_BUS_SILENCE_TICKS
    MonitoringTxPeriod,\* SC_MONITORING_TX_PERIOD
    WatchdogTicks,     \* ticks without a toggle of WDI after which the TPS3823 resets
    Torques, Currents, \* torque (percent) and current (mA) values on the bus
    HbContents,        \* heartbeat contents on the bus under disturbance
    FaultHypotheses    \* the fault hypotheses considered

FaultKinds == {"silent", "blackout", "e2e", "estop", "content", "drive", "startup", "flash", "ram",
               "canary", "dcan", "busoff", "readback", "esm", "overrun"}

\* The mailbox of an ECU's heartbeat is named after the ECU.
Mailboxes == Ecus \cup {"ESTOP", "VEHICLE_STATE", "MOTOR_CURRENT"}
CriticalMailboxes == Ecus \cup {"ESTOP"}
DriveMailboxes == {"VEHICLE_STATE", "MOTOR_CURRENT"}

ASSUME ScAssumption ==
    /\ Ecus \subseteq {"CVC", "FZC", "RZC"} /\ "FZC" \in Ecus
    /\ BusSilenceTicks \in Nat \ {0}
    /\ MonitoringTxPeriod \in Nat \ {0}
    /\ WatchdogTicks \in Nat \ {0}
    /\ Torques \subseteq Nat /\ 0 \in Torques
    /\ Currents \subseteq Nat /\ 0 \in Currents
    /\ HbContents \subseteq HbContent
    /\ FaultHypotheses \subseteq [kinds : SUBSET FaultKinds, mailboxes : SUBSET Mailboxes]

VARIABLES
    pc,                \* the next call of the main loop
    rx_todo, any_valid,\* locals of SC_CAN_Receive: mailboxes left, a valid frame seen
    e2e,               \* sc_e2e.c, per mailbox
    can,               \* sc_can.c: stored data, bus silence, bus-off, E-stop
    hb,                \* sc_heartbeat.c, per ECU
    hb_startup_grace,
    plaus,             \* sc_plausibility.c
    relay,             \* sc_relay.c
    relay_pin,         \* GIO_A0: TRUE closes the relay
    sc_state,          \* sc_state.c
    selftest,          \* sc_selftest.c
    esm_error_active,  \* sc_esm.c
    led,               \* the fault LED pins
    mon_tick,          \* sc_monitoring.c
    tx,                \* the SC_Status frame sent in this iteration, if any
    wdi,               \* the WDI pin
    tick_pending,      \* the one-bit RTI flag
    wdt,               \* TPS3823: ticks since WDI last toggled
    hyp,               \* the fault hypothesis of this behaviour
    quiet,             \* observer: monitored ticks since an ECU's last valid heartbeat
    suspicion          \* observer: for how many iterations each drive fault has been
                       \* visible, while the relay has not been killed

rxVars    == <<rx_todo, any_valid, e2e, can>>
hbVars    == <<hb, hb_startup_grace, quiet>>
relayVars == <<relay, relay_pin>>
outVars   == <<led, mon_tick, tx>>
timeVars  == <<wdi, tick_pending, wdt>>
plausVars == <<plaus, suspicion>>
vars == <<pc, rxVars, hbVars, plausVars, relayVars, sc_state, selftest, esm_error_active,
          outVars, timeVars, hyp>>

Leds == Ecus \cup {"SYS"}
NoFrame == [mode |-> "NONE"]

LoopSteps == {"wait", "receive", "heartbeat", "plausibility", "creep", "relay", "state",
              "status", "led", "bus", "selftest", "feed"}
Steps == LoopSteps \cup {"startup", "energize", "fail_blink", "esm_loop"}

Goto(from, to) == pc = from /\ pc' = to

-----------------------------------------------------------------------------
(* The frames a mailbox may hold. *)

Disturbed(kind, mb) == kind \in hyp.kinds /\ mb \in hyp.mailboxes

NominalContent == [mode |-> "OTHER", faults |-> {}]

Payloads(mb) ==
    CASE mb = "ESTOP"         -> IF "estop" \in hyp.kinds THEN BOOLEAN ELSE {FALSE}
      [] mb = "VEHICLE_STATE" -> IF "drive" \in hyp.kinds THEN Torques ELSE {0}
      [] mb = "MOTOR_CURRENT" -> IF "drive" \in hyp.kinds THEN Currents ELSE {0}
      [] OTHER                -> IF Disturbed("content", mb)
                                 THEN HbContents \cup {NominalContent} ELSE {NominalContent}

Frames(mb) ==
    IF Disturbed("e2e", mb)
    THEN Frame(Payloads(mb))
    ELSE [check : {"good"}, alive : {NextAlive(e2e[mb].last_alive)}, data : Payloads(mb)]

-----------------------------------------------------------------------------
(* Reset and start-up *)

CanInit == [msg |-> [mb \in DriveMailboxes |-> NoData], bus_silence_counter |-> 0,
            bus_off |-> FALSE, estop_active |-> FALSE]

NoSuspicion == [implausible |-> 0, braking |-> 0, creeping |-> 0]

\* The state after C start-up and the _Init calls of main: the reset has
\* cleared the RAM, the kill latch with it.
Init ==
    /\ pc = "startup" /\ rx_todo = {} /\ any_valid = FALSE
    /\ e2e = [mb \in Mailboxes |-> SC_E2E_Init] /\ can = CanInit
    /\ hb = [e \in Ecus |-> SC_Heartbeat_Init]
    /\ hb_startup_grace = StartupGraceTicks /\ quiet = [e \in Ecus |-> 0]
    /\ plaus = SC_Plausibility_Init /\ suspicion = NoSuspicion
    /\ relay = SC_Relay_Init(FALSE) /\ relay_pin = FALSE
    /\ sc_state = "INIT" /\ selftest = SC_SelfTest_Init /\ esm_error_active = FALSE
    /\ led = [l \in Leds |-> FALSE] /\ mon_tick = 0 /\ tx = NoFrame
    /\ wdi = FALSE /\ tick_pending = FALSE /\ wdt = 0
    /\ hyp \in FaultHypotheses

WatchdogReset ==
    /\ wdt = WatchdogTicks
    /\ pc' = "startup" /\ rx_todo' = {} /\ any_valid' = FALSE
    /\ e2e' = [mb \in Mailboxes |-> SC_E2E_Init] /\ can' = CanInit
    /\ hb' = [e \in Ecus |-> SC_Heartbeat_Init]
    /\ hb_startup_grace' = StartupGraceTicks /\ quiet' = [e \in Ecus |-> 0]
    /\ plaus' = SC_Plausibility_Init /\ suspicion' = NoSuspicion
    /\ relay' = SC_Relay_Init(FALSE) /\ relay_pin' = FALSE
    /\ sc_state' = "INIT" /\ selftest' = SC_SelfTest_Init /\ esm_error_active' = FALSE
    /\ led' = [l \in Leds |-> FALSE] /\ mon_tick' = 0 /\ tx' = NoFrame
    /\ wdi' = FALSE /\ tick_pending' = FALSE /\ wdt' = 0
    /\ UNCHANGED hyp

\* Mutant of SelfTestStartup: the result is stored and not acted upon.
SelfTestStartupIgnored ==
    /\ Goto("startup", "energize")
    /\ \E ok \in IF "startup" \in hyp.kinds THEN BOOLEAN ELSE {TRUE} :
        selftest' = [selftest EXCEPT !.startup_passed = ok]
    /\ UNCHANGED <<rxVars, hbVars, plausVars, relayVars, sc_state, esm_error_active,
                   outVars, timeVars, hyp>>

\* SC_SelfTest_Startup: seven hardware tests, the first failing one ends it.
SelfTestStartup ==
    /\ pc = "startup"
    /\ \E ok \in IF "startup" \in hyp.kinds THEN BOOLEAN ELSE {TRUE} :
        /\ selftest' = [selftest EXCEPT !.startup_passed = ok]
        /\ pc' = IF ok THEN "energize" ELSE "fail_blink"
    /\ UNCHANGED <<rxVars, hbVars, plausVars, relayVars, sc_state, esm_error_active,
                   outVars, timeVars, hyp>>

EnergizeRelay ==
    /\ Goto("energize", "wait")
    /\ relay' = SC_Relay_Energize(relay)
    /\ relay_pin' = (relay_pin \/ ~relay.killed)
    /\ sc_state' = SC_State_Transition(sc_state, "MONITORING")
    /\ UNCHANGED <<rxVars, hbVars, plausVars, selftest, esm_error_active, outVars, timeVars, hyp>>

-----------------------------------------------------------------------------
(* The main loop *)

\* On a dead bus no mailbox has new data, and the loop of SC_CAN_Receive passes
\* over all of them.
WaitForTick ==
    /\ Goto("wait", "receive")
    /\ tick_pending
    /\ tick_pending' = FALSE
    /\ any_valid' = FALSE
    /\ rx_todo' \in IF "blackout" \in hyp.kinds THEN {Mailboxes, {}} ELSE {Mailboxes}
    /\ UNCHANGED <<e2e, can, hbVars, plausVars, relayVars, sc_state, selftest, esm_error_active,
                   outVars, wdi, wdt, hyp>>

MbIndex == [mb \in {"ESTOP", "CVC", "FZC", "RZC", "VEHICLE_STATE", "MOTOR_CURRENT"} |->
            CASE mb = "ESTOP" -> 0 [] mb = "CVC" -> 1 [] mb = "FZC" -> 2 [] mb = "RZC" -> 3
              [] mb = "VEHICLE_STATE" -> 4 [] mb = "MOTOR_CURRENT" -> 5]

\* The mailbox the loop of SC_CAN_Receive is at.
AtMailbox(mb) ==
    /\ pc = "receive" /\ mb \in rx_todo
    /\ \A other \in rx_todo : MbIndex[mb] <= MbIndex[other]
    /\ rx_todo' = rx_todo \ {mb}

MailboxEmpty(mb) ==
    /\ AtMailbox(mb)
    /\ Disturbed("silent", mb)
    /\ UNCHANGED <<pc, any_valid, e2e, can, hbVars, plausVars, relayVars, sc_state, selftest,
                   esm_error_active, outVars, timeVars, hyp>>

\* Mutant of RejectFrame: the heartbeat timer is reset before the frame is checked.
RejectFrameNotifies(mb, f) ==
    /\ AtMailbox(mb)
    /\ ~SC_E2E_Valid(e2e[mb], f)
    /\ e2e' = [e2e EXCEPT ![mb] = SC_E2E_Check(@, f)]
    /\ hb' = IF mb \in Ecus THEN [hb EXCEPT ![mb] = SC_Heartbeat_NotifyRx(@)] ELSE hb
    /\ UNCHANGED <<pc, any_valid, can, hb_startup_grace, quiet, plausVars, relayVars, sc_state,
                   selftest, esm_error_active, outVars, timeVars, hyp>>

RejectFrame(mb, f) ==
    /\ AtMailbox(mb)
    /\ ~SC_E2E_Valid(e2e[mb], f)
    /\ e2e' = [e2e EXCEPT ![mb] = SC_E2E_Check(@, f)]
    /\ UNCHANGED <<pc, any_valid, can, hbVars, plausVars, relayVars, sc_state, selftest,
                   esm_error_active, outVars, timeVars, hyp>>

AcceptFrame(mb, f) ==
    /\ AtMailbox(mb)
    /\ SC_E2E_Valid(e2e[mb], f)
    /\ e2e' = [e2e EXCEPT ![mb] = SC_E2E_Check(@, f)]
    /\ any_valid' = TRUE
    /\ can' = IF mb \in DriveMailboxes THEN [can EXCEPT !.msg[mb] = f.data]
              ELSE IF mb = "ESTOP" THEN [can EXCEPT !.estop_active = f.data]
              ELSE can
    /\ IF mb \in Ecus
       THEN /\ hb' = [hb EXCEPT ![mb] =
                        SC_Heartbeat_ValidateContent(SC_Heartbeat_NotifyRx(@), f.data)]
            /\ led' = [led EXCEPT ![mb] = @ /\ ~Recovers(hb[mb])]
            /\ quiet' = [quiet EXCEPT ![mb] = 0]
       ELSE UNCHANGED <<hb, led, quiet>>
    /\ UNCHANGED <<pc, hb_startup_grace, plausVars, relayVars, sc_state, selftest,
                   esm_error_active, mon_tick, tx, timeVars, hyp>>

ReceiveMailbox ==
    \E mb \in rx_todo :
        \/ MailboxEmpty(mb)
        \/ \E f \in Frames(mb) : RejectFrame(mb, f) \/ AcceptFrame(mb, f)

\* Mutant of ReceiveDone: a valid frame does not end the bus silence.
ReceiveDoneKeepsSilence ==
    /\ Goto("receive", "heartbeat")
    /\ rx_todo = {}
    /\ UNCHANGED <<rxVars, hbVars, plausVars, relayVars, sc_state, selftest,
                   esm_error_active, outVars, timeVars, hyp>>

ReceiveDone ==
    /\ Goto("receive", "heartbeat")
    /\ rx_todo = {}
    /\ can' = IF any_valid THEN [can EXCEPT !.bus_silence_counter = 0] ELSE can
    /\ UNCHANGED <<rx_todo, any_valid, e2e, hbVars, plausVars, relayVars, sc_state, selftest,
                   esm_error_active, outVars, timeVars, hyp>>

HeartbeatMonitor ==
    /\ Goto("heartbeat", "plausibility")
    /\ IF hb_startup_grace > 0
       THEN /\ hb_startup_grace' = hb_startup_grace - 1
            /\ UNCHANGED <<hb, led, quiet>>
       ELSE /\ hb' = [e \in Ecus |-> SC_Heartbeat_Monitor(hb[e])]
            /\ led' = [l \in Leds |->
                        IF l \in Ecus /\ ~hb[l].confirmed /\ ~hb[l].timed_out
                        THEN hb'[l].timed_out ELSE led[l]]
            /\ quiet' = [e \in Ecus |-> CountUpTo(HbTimeoutTicks + HbConfirmTicks, quiet[e])]
            /\ UNCHANGED hb_startup_grace
    /\ UNCHANGED <<rxVars, plausVars, relayVars, sc_state, selftest, esm_error_active,
                   mon_tick, tx, timeVars, hyp>>

Torque  == can.msg["VEHICLE_STATE"]
Current == can.msg["MOTOR_CURRENT"]

\* What the three drive faults are, said without the code's case analysis: the
\* current is off by more than 2 A and by more than a fifth of what the torque
\* calls for; it flows on while the brakes have failed; it flows without torque.
Implausible ==
    LET expected == lookup_expected_current(Torque)
        off      == IF Current > expected THEN Current - expected ELSE expected - Current
    IN  /\ Torque # NoData /\ Current # NoData
        /\ off > PlausAbsThresholdMa /\ 5 * off > expected
Braking  == SC_Heartbeat_IsBrakeFault(hb["FZC"]) /\ Current > BackupCutoffCurrentMa
Creeping == Torque = 0 /\ Current > CreepCurrentThresh

Observe(seen, limit, n) == IF seen THEN CountUpTo(limit, n) ELSE 0

PlausibilityCheck ==
    /\ Goto("plausibility", "creep")
    /\ suspicion' =
        IF plaus.startup_grace > 0 \/ relay.killed THEN suspicion
        ELSE [suspicion EXCEPT
                !.implausible = Observe(Implausible, PlausDebounceTicks, @),
                !.braking = Observe(Braking, BackupCutoffTicks, @)]
    /\ plaus' = SC_Plausibility_Check(plaus, Torque, Current, SC_Heartbeat_IsBrakeFault(hb["FZC"]))
    /\ led' = [led EXCEPT !["SYS"] = @ \/ (plaus'.faulted /\ ~plaus.faulted)]
    /\ UNCHANGED <<rxVars, hbVars, relayVars, sc_state, selftest, esm_error_active,
                   mon_tick, tx, timeVars, hyp>>

CreepGuardCheck ==
    /\ Goto("creep", "relay")
    /\ suspicion' =
        IF plaus.startup_grace > 0 \/ relay.killed THEN suspicion
        ELSE [suspicion EXCEPT !.creeping = Observe(Creeping, CreepDebounceCycles, @)]
    /\ plaus' = SC_CreepGuard_Check(plaus, Torque, Current)
    /\ led' = [led EXCEPT !["SYS"] = @ \/ (plaus'.creep_faulted /\ ~plaus.creep_faulted)]
    /\ UNCHANGED <<rxVars, hbVars, relayVars, sc_state, selftest, esm_error_active,
                   mon_tick, tx, timeVars, hyp>>

\* Mutant of ActiveTriggers: the E-stop is evaluated after the start-up grace only.
ActiveTriggersAfterGrace ==
    {t \in Triggers :
        \/ t = "ESTOP" /\ can.estop_active /\ hb_startup_grace = 0
        \/ t = "HB_TIMEOUT" /\ \E e \in Ecus : hb[e].confirmed
        \/ t = "PLAUSIBILITY" /\ plaus.faulted
        \/ t = "CREEP_GUARD" /\ plaus.creep_faulted
        \/ t = "E2E_FAIL" /\ \E mb \in CriticalMailboxes : e2e[mb].failed
        \/ t = "SELFTEST" /\ ~SC_SelfTest_IsHealthy(selftest)
        \/ t = "ESM" /\ esm_error_active
        \/ t = "BUSOFF" /\ can.bus_off
        \/ t = "BUS_SILENCE" /\ can.bus_silence_counter >= BusSilenceTicks}

\* The trigger conditions that hold now.
ActiveTriggers ==
    {t \in Triggers :
        \/ t = "ESTOP" /\ can.estop_active
        \/ t = "HB_TIMEOUT" /\ \E e \in Ecus : hb[e].confirmed
        \/ t = "PLAUSIBILITY" /\ plaus.faulted
        \/ t = "CREEP_GUARD" /\ plaus.creep_faulted
        \/ t = "E2E_FAIL" /\ \E mb \in CriticalMailboxes : e2e[mb].failed
        \/ t = "SELFTEST" /\ ~SC_SelfTest_IsHealthy(selftest)
        \/ t = "ESM" /\ esm_error_active
        \/ t = "BUSOFF" /\ can.bus_off
        \/ t = "BUS_SILENCE" /\ can.bus_silence_counter >= BusSilenceTicks}

\* Mutant of CheckTriggers: the latch is released when no trigger holds any more.
CheckTriggersRecovers ==
    /\ Goto("relay", "state")
    /\ relay' = IF ActiveTriggers = {} THEN SC_Relay_Energize([relay EXCEPT !.killed = FALSE])
                ELSE SC_Relay_CheckTriggers(relay, ActiveTriggers, relay_pin)
    /\ relay_pin' = ~relay'.killed
    /\ UNCHANGED <<rxVars, hbVars, plausVars, sc_state, selftest, esm_error_active,
                   outVars, timeVars, hyp>>

CheckTriggers ==
    /\ Goto("relay", "state")
    /\ \E readback \in IF "readback" \in hyp.kinds THEN BOOLEAN ELSE {relay_pin} :
        relay' = SC_Relay_CheckTriggers(relay, ActiveTriggers, readback)
    /\ relay_pin' = (relay_pin /\ (relay.killed \/ ~relay'.killed))
    /\ UNCHANGED <<rxVars, hbVars, plausVars, sc_state, selftest, esm_error_active,
                   outVars, timeVars, hyp>>

EcuFault(e) == hb[e].timed_out \/ hb[e].content_fault

\* Mutant of StateUpdate: the fault transition is tried before the kill transition.
StateUpdateFaultFirst ==
    /\ Goto("state", "status")
    /\ sc_state' = IF plaus.faulted \/ \E e \in Ecus : EcuFault(e)
                   THEN SC_State_Transition(sc_state, "FAULT")
                   ELSE IF relay.killed THEN SC_State_Transition(sc_state, "KILL")
                   ELSE sc_state
    /\ UNCHANGED <<rxVars, hbVars, plausVars, relayVars, selftest, esm_error_active,
                   outVars, timeVars, hyp>>

StateUpdate ==
    /\ Goto("state", "status")
    /\ sc_state' = IF relay.killed THEN SC_State_Transition(sc_state, "KILL")
                   ELSE IF plaus.faulted \/ \E e \in Ecus : EcuFault(e)
                   THEN SC_State_Transition(sc_state, "FAULT")
                   ELSE sc_state
    /\ UNCHANGED <<rxVars, hbVars, plausVars, relayVars, selftest, esm_error_active,
                   outVars, timeVars, hyp>>

\* mon_build_payload; the frame's own alive counter and CRC are left out.
StatusFrame ==
    [mode   |-> IF sc_state = "KILL" THEN "SAFE_STOP" ELSE sc_state,
     flags  |-> {e \in Ecus : EcuFault(e)} \cup {p \in {"PLAUS"} : plaus.faulted},
     health |-> {e \in Ecus : ~hb[e].timed_out},
     reason |-> IF relay.killed THEN relay.kill_reason ELSE "NONE",
     relay  |-> ~relay.killed]

MonitoringUpdate ==
    /\ Goto("status", "led")
    /\ mon_tick' = (mon_tick + 1) % MonitoringTxPeriod
    /\ tx' = IF mon_tick + 1 >= MonitoringTxPeriod THEN StatusFrame ELSE NoFrame
    /\ UNCHANGED <<rxVars, hbVars, plausVars, relayVars, sc_state, selftest, esm_error_active,
                   led, timeVars, hyp>>

\* Nothing calls SC_LED_SetState, so every requested LED state is OFF.
LedUpdate ==
    /\ Goto("led", "bus")
    /\ led' = [l \in Leds |-> FALSE]
    /\ tx' = NoFrame
    /\ UNCHANGED <<rxVars, hbVars, plausVars, relayVars, sc_state, selftest, esm_error_active,
                   mon_tick, timeVars, hyp>>

\* The silence counter is held at the threshold it is compared with.
MonitorBus ==
    /\ Goto("bus", "selftest")
    /\ \E off \in IF "busoff" \in hyp.kinds THEN BOOLEAN ELSE {FALSE} :
        can' = [can EXCEPT !.bus_silence_counter = CountUpTo(BusSilenceTicks, @),
                           !.bus_off = off]
    /\ UNCHANGED <<rx_todo, any_valid, e2e, hbVars, plausVars, relayVars, sc_state, selftest,
                   esm_error_active, outVars, timeVars, hyp>>

SelfTestRuntime ==
    /\ Goto("selftest", "feed")
    /\ \E flashOk \in IF "flash" \in hyp.kinds THEN BOOLEAN ELSE {TRUE},
          dcanOk  \in IF "dcan" \in hyp.kinds THEN BOOLEAN ELSE {TRUE} :
        selftest' = SC_SelfTest_Runtime(selftest, flashOk, dcanOk)
    /\ UNCHANGED <<rxVars, hbVars, plausVars, relayVars, sc_state, esm_error_active,
                   outVars, timeVars, hyp>>

\* Mutant of AllChecksOk: the stack canary is not consulted.
AllChecksOkWithoutCanary ==
    /\ SC_SelfTest_IsHealthy(selftest)
    /\ ~can.bus_off
    /\ ~esm_error_active

AllChecksOk ==
    /\ selftest.canary_intact
    /\ SC_SelfTest_IsHealthy(selftest)
    /\ ~can.bus_off
    /\ ~esm_error_active

WatchdogFeed ==
    /\ Goto("feed", "wait")
    /\ IF AllChecksOk
       THEN wdi' = ~wdi /\ wdt' = 0
       ELSE UNCHANGED <<wdi, wdt>>
    /\ UNCHANGED <<rxVars, hbVars, plausVars, relayVars, sc_state, selftest, esm_error_active,
                   outVars, tick_pending, hyp>>

-----------------------------------------------------------------------------
(* Around the loop *)

\* 10 ms pass.  The loop keeps up with its tick unless "overrun" is assumed:
\* then ticks may arrive at any call, and merge in the one-bit flag.
TimePasses ==
    /\ wdt < WatchdogTicks
    /\ \/ pc = "wait" /\ ~tick_pending
       \/ pc \in {"fail_blink", "esm_loop"}
       \/ "overrun" \in hyp.kinds
    /\ wdt' = wdt + 1
    /\ tick_pending' = (tick_pending \/ pc \in LoopSteps)
    /\ UNCHANGED <<pc, rxVars, hbVars, plausVars, relayVars, sc_state, selftest,
                   esm_error_active, outVars, wdi, hyp>>

\* SC_ESM_HighLevelInterrupt, in a build with SC_ESM_ENABLED: it does not return.
EsmInterrupt ==
    /\ "esm" \in hyp.kinds
    /\ pc # "esm_loop"
    /\ pc' = "esm_loop"
    /\ relay_pin' = FALSE
    /\ led' = [led EXCEPT !["SYS"] = TRUE]
    /\ esm_error_active' = TRUE
    /\ UNCHANGED <<rxVars, hbVars, plausVars, relay, sc_state, selftest, mon_tick, tx,
                   timeVars, hyp>>

\* The stack grows over its canary, or the RAM test pattern is overwritten.
\* Both are read once per iteration, so the moment is immaterial.
MemoryCorruption ==
    /\ pc = "wait"
    /\ \/ /\ "canary" \in hyp.kinds
          /\ selftest' = [selftest EXCEPT !.canary_intact = FALSE]
       \/ /\ "ram" \in hyp.kinds
          /\ selftest' = [selftest EXCEPT !.ram_intact = FALSE]
    /\ UNCHANGED <<pc, rxVars, hbVars, plausVars, relayVars, sc_state, esm_error_active,
                   outVars, timeVars, hyp>>

MainStep ==
    \/ SelfTestStartup \/ EnergizeRelay \/ WaitForTick
    \/ ReceiveMailbox \/ ReceiveDone
    \/ HeartbeatMonitor \/ PlausibilityCheck \/ CreepGuardCheck
    \/ CheckTriggers \/ StateUpdate \/ MonitoringUpdate \/ LedUpdate
    \/ MonitorBus \/ SelfTestRuntime \/ WatchdogFeed

Next == MainStep \/ TimePasses \/ EsmInterrupt \/ MemoryCorruption \/ WatchdogReset

Spec == Init /\ [][Next]_vars

\* The processor runs, time passes, and an expired watchdog resets.
Fairness == WF_vars(MainStep) /\ WF_vars(TimePasses) /\ WF_vars(WatchdogReset)

FairSpec == Spec /\ Fairness
-----------------------------------------------------------------------------
(* Properties *)

TypeOK ==
    /\ pc \in Steps /\ rx_todo \subseteq Mailboxes /\ any_valid \in BOOLEAN
    /\ e2e \in [Mailboxes -> E2eState]
    /\ can \in [msg : [DriveMailboxes -> Nat \cup {NoData}],
                bus_silence_counter : 0 .. BusSilenceTicks,
                bus_off : BOOLEAN, estop_active : BOOLEAN]
    /\ hb \in [Ecus -> HbState]
    /\ hb_startup_grace \in 0 .. StartupGraceTicks
    /\ quiet \in [Ecus -> 0 .. HbTimeoutTicks + HbConfirmTicks]
    /\ plaus \in PlausState
    /\ suspicion \in [implausible : 0 .. PlausDebounceTicks, braking : 0 .. BackupCutoffTicks,
                      creeping : 0 .. CreepDebounceCycles]
    /\ relay \in RelayState /\ relay_pin \in BOOLEAN
    /\ sc_state \in ScStates
    /\ selftest \in SelfTestState /\ esm_error_active \in BOOLEAN
    /\ led \in [Leds -> BOOLEAN]
    /\ mon_tick \in 0 .. MonitoringTxPeriod - 1
    /\ wdi \in BOOLEAN /\ tick_pending \in BOOLEAN /\ wdt \in 0 .. WatchdogTicks
    /\ hyp \in FaultHypotheses

\* The triggers have been evaluated in this iteration.
Evaluated == {"state", "status", "led", "bus", "selftest", "feed"}

\* The relay is closed only on the strength of a passed start-up test, while
\* commanded, and never with the kill latch set, whichever call, interrupt or
\* reset comes next.
ClosedOnlyWhenHealthy ==
    relay_pin => /\ selftest.startup_passed
                 /\ relay.commanded /\ ~relay.killed
                 /\ pc \notin {"startup", "energize", "fail_blink", "esm_loop"}

\* An ECU without a valid heartbeat for the timeout and the confirmation time
\* has lost its motor power by the end of the same iteration, whatever partial
\* recoveries, corrupted frames or other faults came before.
DeadEcuCutsPower ==
    \A e \in Ecus :
        pc \in Evaluated /\ quiet[e] >= HbTimeoutTicks + HbConfirmTicks => ~relay_pin

\* A valid E-stop frame opens the relay in the iteration that receives it, even
\* during the start-up grace and whatever the other mailboxes hold.
EStopCutsPower == pc \in Evaluated /\ can.estop_active => ~relay_pin

\* A drive fault visible for its debounce time opens the relay in the iteration
\* that completes the debounce.
DriveFaultCutsPower ==
    /\ pc \in Evaluated
    /\ \/ suspicion.implausible >= PlausDebounceTicks
       \/ suspicion.braking >= BackupCutoffTicks
       \/ suspicion.creeping >= CreepDebounceCycles
    => ~relay_pin

\* The kinds of disturbance that can explain a kill reason.
Explains(reason) ==
    CASE reason = "ESTOP"        -> {"estop"}
      [] reason = "HB_TIMEOUT"   -> {"silent", "blackout", "e2e"}
      [] reason = "PLAUSIBILITY" -> {"drive"}
      [] reason = "CREEP_GUARD"  -> {"drive"}
      [] reason = "E2E_FAIL"     -> {"e2e"}
      [] reason = "SELFTEST"     -> {"flash", "ram", "dcan"}
      [] reason = "BUSOFF"       -> {"busoff"}
      [] reason = "BUS_SILENCE"  -> {"silent", "blackout", "e2e"}
      [] reason = "READBACK"     -> {"readback"}
      [] OTHER                   -> {}

\* No false trip: the relay is killed only in a behaviour whose faults can
\* explain the recorded reason; an undisturbed vehicle never loses power.
TripHasCause == relay.killed => Explains(relay.kill_reason) \cap hyp.kinds # {}

\* A status frame on the bus tells the truth about the relay pin, the latch
\* and the faults, at the moment it is sent.
StatusIsTrue ==
    pc = "led" /\ tx # NoFrame =>
        /\ tx.relay = relay_pin
        /\ tx.mode = "SAFE_STOP" <=> relay.killed
        /\ tx.reason # "NONE" <=> relay.killed
        /\ tx.mode = "MONITORING" => tx.flags = {}

\* The controller implements the promise of module KillRelay.
Promise == INSTANCE KillRelay WITH
    mode   <- IF pc = "esm_loop" THEN "halted"
              ELSE IF relay.killed THEN "tripped"
              ELSE IF pc \in {"startup", "energize", "fail_blink"} THEN "starting"
              ELSE "closed",
    closed <- relay_pin

KeepsPromise == Promise!Spec

\* A controller that failed one of its own run-time tests, or found its stack
\* canary overwritten, is eventually reset by the external watchdog.
UnhealthyIsReset ==
    (~selftest.runtime_healthy \/ ~selftest.canary_intact) ~> pc = "startup"

\* The kill latch outlives everything but a power cycle.
LatchedUntilPowerCycle == [](relay.killed => [](~relay_pin))
=============================================================================
