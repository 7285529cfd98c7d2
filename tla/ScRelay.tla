------------------------------- MODULE ScRelay -------------------------------
(***************************************************************************)
(* Kill-relay latch, operating state and run-time self-test of the Safety  *)
(* Controller (firmware/sc/src/sc_relay.c, sc_state.c, sc_selftest.c).     *)
(***************************************************************************)
EXTENDS Integers, Sequences

CONSTANTS
    ReadbackThreshold,      \* SC_RELAY_READBACK_THRESHOLD
    SelfTestPeriod          \* SC_SELFTEST_RUNTIME_PERIOD

\* With a period below eight the four test slots would coincide.
ASSUME RelayAssumption ==
    /\ ReadbackThreshold \in Nat \ {0}
    /\ SelfTestPeriod \in Nat /\ SelfTestPeriod >= 8

-----------------------------------------------------------------------------
(* sc_relay.c *)

\* The trigger conditions in the order SC_Relay_CheckTriggers tests them; the
\* readback comparison comes after all of them.
KillPriority == <<"ESTOP", "HB_TIMEOUT", "PLAUSIBILITY", "CREEP_GUARD", "E2E_FAIL",
                  "SELFTEST", "ESM", "BUSOFF", "BUS_SILENCE">>

Triggers == {KillPriority[i] : i \in DOMAIN KillPriority}
KillReasons == Triggers \cup {"READBACK"}

RelayState == [killed : BOOLEAN, commanded : BOOLEAN,
               readback_mismatch_count : 0 .. ReadbackThreshold,
               kill_reason : KillReasons \cup {"NONE"}]

\* SC_Relay_Init does not touch the latch.
SC_Relay_Init(latch) ==
    [killed |-> latch, commanded |-> FALSE, readback_mismatch_count |-> 0,
     kill_reason |-> "NONE"]

SC_Relay_Energize(r) == IF r.killed THEN r ELSE [r EXCEPT !.commanded = TRUE]

SC_Relay_DeEnergize(r, reason) ==
    [r EXCEPT !.commanded = FALSE, !.killed = TRUE, !.kill_reason = reason]

FirstReason(active) ==
    LET first == CHOOSE i \in DOMAIN KillPriority :
                    /\ KillPriority[i] \in active
                    /\ \A j \in DOMAIN KillPriority : KillPriority[j] \in active => i <= j
    IN  KillPriority[first]

\* active: the triggers whose condition holds; readback: the level of the pin.
SC_Relay_CheckTriggers(r, active, readback) ==
    LET mismatches == IF readback # r.commanded THEN r.readback_mismatch_count + 1 ELSE 0
        counted    == [r EXCEPT !.readback_mismatch_count = mismatches]
    IN  IF r.killed THEN r
        ELSE IF active # {} THEN SC_Relay_DeEnergize(r, FirstReason(active))
        ELSE IF mismatches >= ReadbackThreshold THEN SC_Relay_DeEnergize(counted, "READBACK")
        ELSE counted

-----------------------------------------------------------------------------
(* sc_state.c: every value is one of the four below, so the fail-closed
   default branch of SC_State_Transition is never taken.                   *)

ScStates == {"INIT", "MONITORING", "FAULT", "KILL"}

AllowedEdges == {<<"INIT", "MONITORING">>, <<"MONITORING", "FAULT">>,
                 <<"MONITORING", "KILL">>, <<"FAULT", "KILL">>}

SC_State_Transition(state, new) == IF <<state, new>> \in AllowedEdges THEN new ELSE state

-----------------------------------------------------------------------------
(* sc_selftest.c *)

SelfTestState == [startup_passed : BOOLEAN, runtime_healthy : BOOLEAN,
                  runtime_tick : 0 .. SelfTestPeriod - 1,
                  canary_intact : BOOLEAN, ram_intact : BOOLEAN]

SC_SelfTest_Init ==
    [startup_passed |-> FALSE, runtime_healthy |-> TRUE, runtime_tick |-> 0,
     canary_intact |-> TRUE, ram_intact |-> TRUE]

\* flashOk, dcanOk: what the hardware tests return if this call runs them.
SC_SelfTest_Runtime(s, flashOk, dcanOk) ==
    LET tick == IF s.runtime_tick + 1 >= SelfTestPeriod THEN 0 ELSE s.runtime_tick + 1
        failed == \/ tick = 1 /\ ~flashOk
                  \/ tick = SelfTestPeriod \div 4 /\ ~s.ram_intact
                  \/ tick = SelfTestPeriod \div 2 /\ ~dcanOk
    IN  IF ~s.startup_passed THEN [s EXCEPT !.runtime_healthy = FALSE]
        ELSE [s EXCEPT !.runtime_tick = tick, !.runtime_healthy = @ /\ ~failed]

SC_SelfTest_IsHealthy(s) == s.startup_passed /\ s.runtime_healthy
=============================================================================
