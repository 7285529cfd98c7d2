----------------------------- MODULE HeartbeatLink -----------------------------
(***************************************************************************)
(* One zone ECU's heartbeat on its way to the Safety Controller: the       *)
(* cyclic sender (firmware/fzc/src/Swc_Heartbeat.c, with E2E_Protect of    *)
(* shared/bsw/services/E2E.c), the CAN bus, the one-frame DCAN mailbox,    *)
(* and the controller's E2E check, heartbeat supervision and kill latch.   *)
(*                                                                         *)
(* The two processors have 10 ms clocks of their own.  Within one          *)
(* heartbeat period the count of sender cycles and the count of controller *)
(* ticks may part by MaxSkew; from period to period their phases drift     *)
(* freely.                                                                 *)
(***************************************************************************)
EXTENDS ScE2E, ScHeartbeat

CONSTANTS
    HB_PERIOD_CYCLES,  \* sender cycles per heartbeat
    StartupGraceTicks, \* SC_HB_STARTUP_GRACE_TICKS
    MaxSkew,           \* how far the clocks part within one heartbeat period
    MaxLosses,         \* frames the driver or the bus loses
    MaxOutages,        \* bus-off episodes the sender sees
    MaxRestarts        \* restarts of the sender

ASSUME LinkAssumption ==
    /\ HB_PERIOD_CYCLES \in Nat \ {0}
    /\ StartupGraceTicks \in Nat
    /\ MaxSkew \in Nat
    /\ MaxLosses \in Nat /\ MaxOutages \in Nat /\ MaxRestarts \in Nat

\* What the timing parameters must satisfy for the link to work at all: two
\* frames never meet in the mailbox, and a punctual sender is never late.
TimingFits ==
    /\ MaxSkew < HB_PERIOD_CYCLES
    /\ HB_PERIOD_CYCLES + MaxSkew < HbTimeoutTicks

VARIABLES
    up,          \* the sender runs
    Hb_CycleCounter,
    Counter,     \* hb_e2e_state.Counter, the alive number last given to a frame
    bus_off,     \* the bus-off bit of the sender's fault mask
    ticks,       \* controller ticks in the sender's current heartbeat period
    mailbox,     \* the DCAN message object
    e2e, hb,     \* the controller's records for this mailbox and this ECU
    hb_startup_grace,
    killed,      \* the kill relay latch
    faults,      \* what has gone wrong so far
    quiet        \* observer: monitored ticks since the last valid frame

senderVars == <<up, Hb_CycleCounter, Counter, bus_off>>
controllerVars == <<e2e, hb, hb_startup_grace, killed, quiet>>
vars == <<senderVars, ticks, mailbox, controllerVars, faults>>

NoFrame == [check |-> "none"]
HeartbeatFrame(alive) == [check |-> "good", alive |-> alive, data |-> "heartbeat"]

\* Observers stop counting where nothing looks at the difference any more.
QuietMax == HbTimeoutTicks + HbConfirmTicks

Init ==
    /\ up = TRUE /\ Hb_CycleCounter = 0 /\ Counter = 0 /\ bus_off = FALSE
    /\ ticks = 0 /\ mailbox = NoFrame
    /\ e2e = SC_E2E_Init /\ hb = SC_Heartbeat_Init
    /\ hb_startup_grace = StartupGraceTicks /\ killed = FALSE
    /\ faults = [losses |-> 0, outages |-> 0, restarts |-> 0]
    /\ quiet = 0

-----------------------------------------------------------------------------
(* The sender *)

\* Swc_Heartbeat_MainFunction on the cycles that send nothing.
CountCycle ==
    /\ up /\ Hb_CycleCounter + 1 < HB_PERIOD_CYCLES
    /\ Hb_CycleCounter + 1 - ticks <= MaxSkew
    /\ Hb_CycleCounter' = Hb_CycleCounter + 1
    /\ UNCHANGED <<up, Counter, bus_off, ticks, mailbox, controllerVars, faults>>

PeriodEnds ==
    /\ up /\ Hb_CycleCounter + 1 >= HB_PERIOD_CYCLES
    /\ Hb_CycleCounter + 1 - ticks <= MaxSkew
    /\ Hb_CycleCounter' = 0 /\ ticks' = 0

\* Mutant of SuppressHeartbeat: the frame is protected before it is suppressed.
SuppressAfterProtect ==
    /\ PeriodEnds
    /\ bus_off
    /\ Counter' = NextAlive(Counter)
    /\ UNCHANGED <<up, bus_off, mailbox, controllerVars, faults>>

\* During a bus-off the frame is not even built, and no alive number is used.
SuppressHeartbeat ==
    /\ PeriodEnds
    /\ bus_off
    /\ UNCHANGED <<up, Counter, bus_off, mailbox, controllerVars, faults>>

\* A frame that arrives overwrites an unread one.
SendHeartbeat ==
    /\ PeriodEnds
    /\ ~bus_off
    /\ Counter' = NextAlive(Counter)
    /\ mailbox' = HeartbeatFrame(Counter')
    /\ UNCHANGED <<up, bus_off, controllerVars, faults>>

\* The result of PduR_Transmit is not looked at: a frame that a full transmit
\* queue refuses has used its alive number all the same.
LoseHeartbeat ==
    /\ PeriodEnds
    /\ ~bus_off
    /\ faults.losses < MaxLosses
    /\ Counter' = NextAlive(Counter)
    /\ faults' = [faults EXCEPT !.losses = @ + 1]
    /\ UNCHANGED <<up, bus_off, mailbox, controllerVars>>

BusOffStarts ==
    /\ up /\ ~bus_off /\ faults.outages < MaxOutages
    /\ bus_off' = TRUE
    /\ faults' = [faults EXCEPT !.outages = @ + 1]
    /\ UNCHANGED <<up, Hb_CycleCounter, Counter, ticks, mailbox, controllerVars>>

BusOffEnds ==
    /\ bus_off
    /\ bus_off' = FALSE
    /\ UNCHANGED <<up, Hb_CycleCounter, Counter, ticks, mailbox, controllerVars, faults>>

\* The sender is reset, by its own watchdog for instance, and comes up again
\* with everything at its initial value.
SenderReset ==
    /\ up /\ faults.restarts < MaxRestarts
    /\ up' = FALSE /\ bus_off' = FALSE
    /\ faults' = [faults EXCEPT !.restarts = @ + 1]
    /\ UNCHANGED <<Hb_CycleCounter, Counter, ticks, mailbox, controllerVars>>

Swc_Heartbeat_Init ==
    /\ ~up
    /\ up' = TRUE /\ Hb_CycleCounter' = 0 /\ Counter' = 0 /\ ticks' = 0
    /\ UNCHANGED <<bus_off, mailbox, controllerVars, faults>>

-----------------------------------------------------------------------------
(* The Safety Controller: one iteration of its main loop, as far as this
   mailbox and this ECU are concerned.                                     *)

FrameValid == mailbox # NoFrame /\ SC_E2E_Valid(e2e, mailbox)

\* Mutant of AfterMonitor: the timer is not supervised during a recovery.
AfterMonitorUnlessRecovering(h) ==
    IF hb_startup_grace > 0 \/ h.recovery_count > 0 THEN h ELSE SC_Heartbeat_Monitor(h)

AfterMonitor(h) == IF hb_startup_grace > 0 THEN h ELSE SC_Heartbeat_Monitor(h)

ScTick ==
    /\ up => ticks + 1 - Hb_CycleCounter <= MaxSkew
    /\ ticks' = IF up THEN ticks + 1 ELSE ticks
    /\ mailbox' = NoFrame
    /\ e2e' = IF mailbox = NoFrame THEN e2e ELSE SC_E2E_Check(e2e, mailbox)
    /\ hb' = AfterMonitor(IF FrameValid THEN SC_Heartbeat_NotifyRx(hb) ELSE hb)
    /\ hb_startup_grace' = IF hb_startup_grace > 0 THEN hb_startup_grace - 1 ELSE 0
    /\ killed' = (killed \/ hb'.confirmed \/ e2e'.failed)
    /\ quiet' = LET since == IF FrameValid THEN 0 ELSE quiet
                IN  IF hb_startup_grace > 0 THEN since ELSE CountUpTo(QuietMax, since)
    /\ UNCHANGED <<senderVars, faults>>

-----------------------------------------------------------------------------
SenderCycle == CountCycle \/ SuppressHeartbeat \/ SendHeartbeat \/ LoseHeartbeat

Next ==
    \/ SenderCycle \/ BusOffStarts \/ BusOffEnds \/ SenderReset \/ Swc_Heartbeat_Init
    \/ ScTick

Spec == Init /\ [][Next]_vars

\* Both clocks run; a bus-off need not end and a sender need not come back.
FairSpec == Spec /\ WF_vars(SenderCycle) /\ WF_vars(ScTick)
-----------------------------------------------------------------------------
(* Properties *)

TypeOK ==
    /\ up \in BOOLEAN /\ Hb_CycleCounter \in 0 .. HB_PERIOD_CYCLES - 1
    /\ Counter \in Alive /\ bus_off \in BOOLEAN
    /\ ticks \in 0 .. HB_PERIOD_CYCLES + MaxSkew
    /\ mailbox \in {NoFrame} \cup {HeartbeatFrame(a) : a \in Alive}
    /\ e2e \in E2eState /\ hb \in HbState
    /\ hb_startup_grace \in 0 .. StartupGraceTicks
    /\ killed \in BOOLEAN
    /\ faults \in [losses : 0 .. MaxLosses, outages : 0 .. MaxOutages, restarts : 0 .. MaxRestarts]
    /\ quiet \in 0 .. QuietMax

NoFaults == faults.losses = 0 /\ faults.outages = 0 /\ faults.restarts = 0

\* A sender that is never reset, never suppressed and loses nothing is never
\* timed out and never killed, however the two clocks drift.
NoFalseTrip == NoFaults => ~hb.timed_out /\ ~killed

\* Bus-off episodes leave the alive sequence unbroken: the kill they may lead
\* to is for silence, never for a failed E2E check.
OutageKeepsSequence ==
    faults.losses = 0 /\ faults.restarts = 0 => e2e.fail_count = 0 /\ ~e2e.failed

\* A timeout is confirmed only after the full timeout without a valid frame,
\* and the tick that confirms it kills.
ConfirmedAfterSilence ==
    [][~hb.confirmed /\ hb'.confirmed => quiet' >= HbTimeoutTicks /\ killed']_vars

\* A timed-out ECU either recovers or is confirmed dead; it does not linger.
TimeoutResolves == hb.timed_out ~> (~hb.timed_out \/ hb.confirmed)
=============================================================================
