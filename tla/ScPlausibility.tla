--------------------------- MODULE ScPlausibility ---------------------------
(***************************************************************************)
(* Torque/current cross-plausibility, backup cutoff and creep guard        *)
(* (firmware/sc/src/sc_plausibility.c).  The arithmetic is the code's,     *)
(* with the tables and thresholds of the production configuration; only    *)
(* the debounce lengths are parameters.                                    *)
(***************************************************************************)
EXTENDS Integers

CONSTANTS
    StartupGraceTicks,    \* SC_HB_STARTUP_GRACE_TICKS, shared with the heartbeat
    PlausDebounceTicks,   \* SC_PLAUS_DEBOUNCE_TICKS
    BackupCutoffTicks,    \* SC_BACKUP_CUTOFF_TICKS
    CreepDebounceCycles   \* SC_CREEP_DEBOUNCE_CYCLES

ASSUME PlausAssumption ==
    /\ StartupGraceTicks \in Nat
    /\ PlausDebounceTicks \in Nat \ {0}
    /\ BackupCutoffTicks \in Nat \ {0}
    /\ CreepDebounceCycles \in Nat \ {0}

\* What SC_CAN_GetMessage says of a mailbox that never held a valid frame.
NoData == -1

TorquePctLut == <<0, 7, 13, 20, 27, 33, 40, 47, 53, 60, 67, 73, 80, 87, 93, 100>>
CurrentMaLut == <<0, 1750, 3250, 5000, 6750, 8250, 10000, 11750, 13250, 15000,
                  16750, 18250, 20000, 21750, 23250, 25000>>

PlausAbsThresholdMa    == 2000
PlausRelThreshold      == 20
BackupCutoffCurrentMa  == 1000
CreepCurrentThresh     == 500

lookup_expected_current(torque) ==
    IF torque = 0 THEN 0
    ELSE IF torque >= 100 THEN 25000
    ELSE LET i == CHOOSE k \in 2 .. 16 :
                    TorquePctLut[k - 1] < torque /\ torque <= TorquePctLut[k]
         IN  CurrentMaLut[i - 1]
               + ((CurrentMaLut[i] - CurrentMaLut[i - 1]) * (torque - TorquePctLut[i - 1]))
                   \div (TorquePctLut[i] - TorquePctLut[i - 1])

\* Mutant of is_implausible: a current below the expected one counts as no difference.
is_implausible_one_sided(expected, actual) ==
    LET diff     == IF actual > expected THEN actual - expected ELSE 0
        relative == (expected * PlausRelThreshold) \div 100
    IN  IF expected < 100 \/ relative < PlausAbsThresholdMa
        THEN diff > PlausAbsThresholdMa
        ELSE diff > relative

is_implausible(expected, actual) ==
    LET diff     == IF actual > expected THEN actual - expected ELSE expected - actual
        relative == (expected * PlausRelThreshold) \div 100
    IN  IF expected < 100 \/ relative < PlausAbsThresholdMa
        THEN diff > PlausAbsThresholdMa
        ELSE diff > relative

PlausState == [debounce : 0 .. PlausDebounceTicks, faulted : BOOLEAN,
               backup_cutoff_counter : 0 .. BackupCutoffTicks,
               startup_grace : 0 .. StartupGraceTicks,
               creep_debounce : 0 .. CreepDebounceCycles, creep_faulted : BOOLEAN]

SC_Plausibility_Init ==
    [debounce |-> 0, faulted |-> FALSE, backup_cutoff_counter |-> 0,
     startup_grace |-> StartupGraceTicks, creep_debounce |-> 0, creep_faulted |-> FALSE]

\* The torque and the current are the latest stored ones, however old.
SC_Plausibility_Check(p, torque, current, brakeFault) ==
    LET both     == torque # NoData /\ current # NoData
        debounce == IF ~both THEN p.debounce
                    ELSE IF is_implausible(lookup_expected_current(torque), current)
                    THEN p.debounce + 1 ELSE 0
        cutoff   == IF current # NoData /\ brakeFault /\ current > BackupCutoffCurrentMa
                    THEN p.backup_cutoff_counter + 1 ELSE 0
    IN  IF p.faulted THEN p
        ELSE IF p.startup_grace > 0 THEN [p EXCEPT !.startup_grace = @ - 1]
        ELSE [p EXCEPT !.debounce = debounce,
                       !.backup_cutoff_counter = cutoff,
                       !.faulted = debounce >= PlausDebounceTicks \/ cutoff >= BackupCutoffTicks]

SC_CreepGuard_Check(p, torque, current) ==
    IF p.creep_faulted \/ p.startup_grace > 0 \/ torque = NoData \/ current = NoData THEN p
    ELSE IF torque = 0 /\ current > CreepCurrentThresh
    THEN [p EXCEPT !.creep_debounce = @ + 1,
                   !.creep_faulted = p.creep_debounce + 1 >= CreepDebounceCycles]
    ELSE [p EXCEPT !.creep_debounce = 0]
=============================================================================
