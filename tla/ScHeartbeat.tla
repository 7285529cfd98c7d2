----------------------------- MODULE ScHeartbeat -----------------------------
(***************************************************************************)
(* Heartbeat supervision of one ECU (firmware/sc/src/sc_heartbeat.c).      *)
(*                                                                         *)
(* The per-ECU arrays of the file are one record per ECU here; the field   *)
(* names drop the "hb_" prefix.  Operators give the new record.            *)
(***************************************************************************)
EXTENDS Integers, FiniteSets

CONSTANTS
    HbTimeoutTicks,      \* SC_HB_TIMEOUT_TICKS
    HbConfirmTicks,      \* SC_HB_CONFIRM_TICKS
    HbRecoveryThreshold, \* SC_HB_RECOVERY_THRESHOLD
    HbStuckDegradedMax,  \* SC_HB_STUCK_DEGRADED_MAX
    HbFaultEscalateMax   \* SC_HB_FAULT_ESCALATE_MAX

ASSUME HbAssumption ==
    /\ HbTimeoutTicks \in Nat \ {0}
    /\ HbConfirmTicks \in Nat \ {0}
    /\ HbRecoveryThreshold \in Nat \ {0}
    /\ HbStuckDegradedMax \in Nat \ {0}
    /\ HbFaultEscalateMax \in Nat \ {0}

\* Operating modes 2 and 3 of the heartbeat payload; the other values are
\* treated alike by the supervision.
StuckModes == {"DEGRADED", "LIMP"}

FaultBits == 0 .. 3
BrakeFaultBit == 1

HbContent == [mode : StuckModes \cup {"OTHER"}, faults : SUBSET FaultBits]

\* counter never exceeds timeout + confirmation (see the type invariant), so
\* its 16-bit saturation is out of reach; the two content counters are held at
\* their thresholds, where the fault they raise is latched.
HbState == [counter : 0 .. HbTimeoutTicks + HbConfirmTicks,
            timed_out : BOOLEAN,
            confirm_counter : 0 .. HbConfirmTicks,
            confirmed : BOOLEAN,
            recovery_count : 0 .. HbRecoveryThreshold,
            stuck_degraded_cnt : 0 .. HbStuckDegradedMax,
            fault_escalate_cnt : 0 .. HbFaultEscalateMax,
            content_fault : BOOLEAN,
            last_fault_status : SUBSET FaultBits]

SC_Heartbeat_Init ==
    [counter |-> 0, timed_out |-> FALSE, confirm_counter |-> 0, confirmed |-> FALSE,
     recovery_count |-> 0, stuck_degraded_cnt |-> 0, fault_escalate_cnt |-> 0,
     content_fault |-> FALSE, last_fault_status |-> {}]

\* A frame of a timed-out ECU that completes the recovery debounce.
Recovers(h) ==
    /\ h.timed_out /\ ~h.confirmed
    /\ h.recovery_count + 1 >= HbRecoveryThreshold

\* Mutant of SC_Heartbeat_NotifyRx: only a recovering ECU restarts its timer.
SC_Heartbeat_NotifyRxInRecovery(h) ==
    IF Recovers(h)
    THEN [h EXCEPT !.counter = 0, !.timed_out = FALSE,
                   !.confirm_counter = 0, !.recovery_count = 0]
    ELSE IF h.timed_out /\ ~h.confirmed
    THEN [h EXCEPT !.counter = 0, !.recovery_count = @ + 1]
    ELSE h

SC_Heartbeat_NotifyRx(h) ==
    IF Recovers(h)
    THEN [h EXCEPT !.counter = 0, !.timed_out = FALSE,
                   !.confirm_counter = 0, !.recovery_count = 0]
    ELSE IF h.timed_out /\ ~h.confirmed
    THEN [h EXCEPT !.counter = 0, !.recovery_count = @ + 1]
    ELSE [h EXCEPT !.counter = 0]

\* Mutant of SC_Heartbeat_Monitor: the confirmation runs on while frames arrive.
SC_Heartbeat_MonitorRunsOn(h) ==
    LET ticks == h.counter + 1 IN
    IF h.confirmed THEN h
    ELSE IF h.timed_out
    THEN [h EXCEPT !.counter = ticks, !.confirm_counter = @ + 1,
                   !.confirmed = h.confirm_counter + 1 >= HbConfirmTicks]
    ELSE IF ticks < HbTimeoutTicks THEN [h EXCEPT !.counter = ticks]
    ELSE [h EXCEPT !.counter = ticks, !.timed_out = TRUE, !.confirm_counter = 0]

\* One pass of the loop body of SC_Heartbeat_Monitor, after the startup grace.
SC_Heartbeat_Monitor(h) ==
    LET ticks == h.counter + 1 IN
    IF h.confirmed THEN h
    ELSE IF ticks < HbTimeoutTicks THEN [h EXCEPT !.counter = ticks]
    ELSE IF ~h.timed_out
    THEN [h EXCEPT !.counter = ticks, !.timed_out = TRUE, !.confirm_counter = 0]
    ELSE [h EXCEPT !.counter = ticks, !.recovery_count = 0, !.confirm_counter = @ + 1,
                   !.confirmed = h.confirm_counter + 1 >= HbConfirmTicks]

CountUpTo(limit, n) == IF n < limit THEN n + 1 ELSE limit

SC_Heartbeat_ValidateContent(h, content) ==
    LET stuck    == IF content.mode \in StuckModes
                    THEN CountUpTo(HbStuckDegradedMax, h.stuck_degraded_cnt) ELSE 0
        escalate == IF Cardinality(content.faults) >= 2
                    THEN CountUpTo(HbFaultEscalateMax, h.fault_escalate_cnt) ELSE 0
    IN  [h EXCEPT !.last_fault_status = content.faults,
                  !.stuck_degraded_cnt = stuck,
                  !.fault_escalate_cnt = escalate,
                  !.content_fault = @ \/ stuck >= HbStuckDegradedMax
                                      \/ escalate >= HbFaultEscalateMax]

SC_Heartbeat_IsBrakeFault(h) == BrakeFaultBit \in h.last_fault_status
=============================================================================
