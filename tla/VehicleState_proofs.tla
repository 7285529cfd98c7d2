------------------------ MODULE VehicleState_proofs ------------------------
(***************************************************************************)
(* Proofs about the vehicle state machine.  One pass of its main function  *)
(* is a chain of operators on one record; each lemma below says what one   *)
(* of them preserves, and what it does in the states that matter.          *)
(***************************************************************************)
EXTENDS VehicleState, FiniteSetTheorems, TLAPS

-----------------------------------------------------------------------------
(* Parameters, states and the transition table *)

LEMMA Constants ==
  /\ InitHoldCycles \in Nat \ {0} /\ PostInitGraceCycles \in Nat
  /\ ConfirmThreshold \in Nat \ {0} /\ UnlatchCycles \in Nat \ {0}
  /\ RecoveryCycles \in Nat \ {0} /\ CreepDebounceTicks \in Nat \ {0}
  BY VehicleAssumption

LEMMA StateNames ==
  /\ DrivingStates \subseteq States
  /\ \A s \in States : s = "INIT" \/ s = "SAFE_STOP" \/ s = "SHUTDOWN" \/ s \in DrivingStates
  /\ "INIT" \in States /\ "SAFE_STOP" \in States /\ "RUN" \in States
  /\ "INIT" \notin DrivingStates /\ "SAFE_STOP" \notin DrivingStates
  /\ "SHUTDOWN" \notin DrivingStates
  /\ "RUN" \in DrivingStates
  BY DEF DrivingStates, States

\* The events one pass of the main function may raise.
Raised == {"ESTOP", "SC_KILL", "CAN_TIMEOUT_DUAL", "CAN_TIMEOUT_SINGLE", "CAN_RESTORED",
           "PEDAL_FAULT_SINGLE", "BATTERY_CRIT", "BATTERY_WARN", "CREEP_FAULT", "FAULT_CLEARED",
           "MOTOR_CUTOFF", "BRAKE_FAULT", "STEERING_FAULT"}

\* The table says for a driving state that every event leads to a driving state
\* or to a stop, to RUN only when the faults are cleared; that the critical
\* ones stop; and that a motor fault degrades at first.
LEMMA Table ==
  /\ \A s \in DrivingStates : \A e \in DOMAIN transition_table[s] :
        /\ transition_table[s][e] \in DrivingStates \cup {"SAFE_STOP"}
        /\ transition_table[s][e] = "RUN" => e = "FAULT_CLEARED"
  /\ \A s \in DrivingStates : \A e \in Stopping :
        e \in DOMAIN transition_table[s] /\ transition_table[s][e] = "SAFE_STOP"
  /\ \A s \in DrivingStates :
        /\ "MOTOR_CUTOFF" \in DOMAIN transition_table[s]
        /\ transition_table[s]["MOTOR_CUTOFF"] =
             IF s = "RUN" THEN "DEGRADED" ELSE "SAFE_STOP"
  /\ \A e \in Raised \ {"SC_KILL"} : e \notin DOMAIN transition_table["INIT"]
  /\ \A e \in Raised : e \notin DOMAIN transition_table["SAFE_STOP"]
  <1>1. \A e \in Raised \ {"SC_KILL"} : e \notin DOMAIN transition_table["INIT"]
    BY DEF transition_table, Raised
  <1>2. \A e \in Raised : e \notin DOMAIN transition_table["SAFE_STOP"]
    BY DEF transition_table, Raised
  <1>3. /\ \A e \in DOMAIN transition_table["RUN"] :
             /\ transition_table["RUN"][e] \in {"SAFE_STOP", "DEGRADED", "LIMP"}
        /\ \A e \in Stopping : /\ e \in DOMAIN transition_table["RUN"]
                               /\ transition_table["RUN"][e] = "SAFE_STOP"
        /\ "MOTOR_CUTOFF" \in DOMAIN transition_table["RUN"]
        /\ transition_table["RUN"]["MOTOR_CUTOFF"] = "DEGRADED"
    BY DEF transition_table, Stopping
  <1>4. /\ \A e \in DOMAIN transition_table["DEGRADED"] :
             \/ transition_table["DEGRADED"][e] \in {"SAFE_STOP", "LIMP"}
             \/ transition_table["DEGRADED"][e] = "RUN" /\ e = "FAULT_CLEARED"
        /\ \A e \in Stopping \cup {"MOTOR_CUTOFF"} :
             /\ e \in DOMAIN transition_table["DEGRADED"]
             /\ transition_table["DEGRADED"][e] = "SAFE_STOP"
    BY DEF transition_table, Stopping
  <1>5. /\ \A e \in DOMAIN transition_table["LIMP"] :
             \/ transition_table["LIMP"][e] \in {"SAFE_STOP", "DEGRADED"}
             \/ transition_table["LIMP"][e] = "RUN" /\ e = "FAULT_CLEARED"
        /\ \A e \in Stopping \cup {"MOTOR_CUTOFF"} :
             /\ e \in DOMAIN transition_table["LIMP"]
             /\ transition_table["LIMP"][e] = "SAFE_STOP"
    BY DEF transition_table, Stopping
  <1> QED BY <1>1, <1>2, <1>3, <1>4, <1>5 DEF DrivingStates

-----------------------------------------------------------------------------
(* What holds of the record between any two operators of a pass.  BswM has   *)
(* left STARTUP when the self-test passed, p.  A latch belongs to a stop.    *)

VInv(v, p) ==
    /\ v \in VsmVariables /\ v.state # "SHUTDOWN" /\ v.mode # "SHUTDOWN"
    /\ p => v.mode # "STARTUP"
    /\ v.state = "SAFE_STOP" => v.mode = "SAFE_STOP" \/ (v.mode = "STARTUP" /\ ~p)
    /\ v.fault_latched # {} =>
         v.state = "SAFE_STOP" /\ \E l \in Latches : v.fault_latched = {l}
    /\ v.state # "SAFE_STOP" => v.safe_stop_clear_count = 0

\* The creep debounce reaches its limit only when it stops the vehicle.
CreepOk(v) == v.state \in DrivingStates => v.creep_debounce_count < CreepDebounceTicks

\* What the events of a pass may do to the record: only a driving state is
\* left, and a latch that is set starts with a count of zero.
Raises(v, w) ==
    /\ w.state = v.state \/ (v.state \in DrivingStates /\ w.state \in DrivingStates \cup {"SAFE_STOP"})
    /\ v.state \notin DrivingStates =>
         w.fault_latched = v.fault_latched /\ w.fault_unlatch_count = v.fault_unlatch_count
    /\ v.state \in DrivingStates /\ w.state = "SAFE_STOP" =>
         \A l \in w.fault_latched : w.fault_unlatch_count[l] = 0
    /\ w.init_hold_counter = v.init_hold_counter
    /\ w.safe_stop_clear_count = v.safe_stop_clear_count
    /\ w.self_test_pass_pending = v.self_test_pass_pending

\* The events leave the counters of the confirmation alone.
CountersKept(v, w) ==
    /\ w.post_init_grace_counter = v.post_init_grace_counter
    /\ w.fault_confirm_count = v.fault_confirm_count

Derived(v, w, p) ==
    /\ VInv(w, p) /\ CreepOk(w)
    /\ Raises(v, w) /\ CountersKept(v, w)

LEMMA Fields ==
  ASSUME NEW v \in VsmVariables
  PROVE  /\ v.state \in States /\ v.mode \in BswM_ModeType
         /\ v.self_test_pass_pending \in BOOLEAN
         /\ v.init_hold_counter \in 0 .. InitHoldCycles
         /\ v.safe_stop_clear_count \in 0 .. RecoveryCycles - 1
         /\ v.post_init_grace_counter \in 0 .. PostInitGraceCycles
         /\ v.creep_debounce_count \in 0 .. CreepDebounceTicks
         /\ v.fault_confirm_count \in [DOMAIN NoFaultCounted -> 0 .. ConfirmThreshold - 1]
         /\ v.fault_latched \in SUBSET Latches
         /\ v.fault_unlatch_count \in [Latches -> 0 .. UnlatchCycles - 1]
  BY DEF VsmVariables

LEMMA RaisesTransitive ==
  ASSUME NEW u, NEW v, NEW w, Raises(u, v), Raises(v, w),
         u.state \in States, v.state \in States
  PROVE  Raises(u, w)
  BY StateNames DEF Raises

\* BswM takes a request to stop from every mode but STARTUP.
LEMMA EnterKeeps ==
  ASSUME NEW v \in VsmVariables, NEW p \in BOOLEAN, NEW s \in States \ {"SHUTDOWN"},
         v.mode # "SHUTDOWN", p => v.mode # "STARTUP"
  PROVE  LET w == EnterState(v, s)
         IN  /\ w = [v EXCEPT !.state = s, !.mode = w.mode]
             /\ w \in VsmVariables /\ w.state = s /\ w.mode # "SHUTDOWN"
             /\ p => w.mode # "STARTUP"
             /\ s = "SAFE_STOP" => w.mode = "SAFE_STOP" \/ (w.mode = "STARTUP" /\ ~p)
  <1> DEFINE mode == BswM_RequestMode(v.mode, state_to_bswm_mode[s])
             w == EnterState(v, s)
  <1>1. v.mode \in {"STARTUP", "RUN", "DEGRADED", "SAFE_STOP"}
    BY Fields DEF BswM_ModeType
  <1>2. state_to_bswm_mode[s] \in {"STARTUP", "RUN", "DEGRADED", "SAFE_STOP"}
    BY DEF state_to_bswm_mode, States
  <1>3. /\ mode \in BswM_ModeType /\ mode # "SHUTDOWN"
        /\ p => mode # "STARTUP"
    BY <1>1, <1>2 DEF BswM_RequestMode, bswm_is_transition_valid, BswM_ModeType, Rank
  <1>4. s = "SAFE_STOP" => mode = "SAFE_STOP" \/ (mode = "STARTUP" /\ ~p)
    BY <1>1, <1>2 DEF BswM_RequestMode, bswm_is_transition_valid, Rank, state_to_bswm_mode
  <1>5. w = [v EXCEPT !.state = s, !.mode = mode]
    BY DEF EnterState
  <1> HIDE DEF mode, w
  <1>6. w.mode = mode /\ w.state = s /\ w \in VsmVariables
    BY <1>3, <1>5 DEF VsmVariables
  <1> QED BY <1>3, <1>4, <1>5, <1>6 DEF w

\* The latch of a stop: the one set by the event, with a count of zero.
LatchEvent(v, event) ==
    IF event \in LatchedEvents
    THEN [v EXCEPT !.fault_latched = @ \cup {event}, !.fault_unlatch_count[event] = 0]
    ELSE v

LEMMA LatchKeeps ==
  ASSUME NEW v \in VsmVariables, NEW event \in Raised, v.fault_latched = {}
  PROVE  LET w == LatchEvent(v, event)
         IN  /\ w \in VsmVariables
             /\ w = [v EXCEPT !.fault_latched = w.fault_latched,
                              !.fault_unlatch_count = w.fault_unlatch_count]
             /\ w.fault_latched # {} => \E l \in Latches : w.fault_latched = {l}
             /\ \A l \in w.fault_latched : w.fault_unlatch_count[l] = 0
  <1> DEFINE w == LatchEvent(v, event)
  <1>1. v.fault_unlatch_count \in [Latches -> 0 .. UnlatchCycles - 1] /\ 0 \in 0 .. UnlatchCycles - 1
    BY Fields, Constants
  <1>2. CASE event \in LatchedEvents
    <2>1. event \in Latches
      BY <1>2 DEF Latches
    <2>2. w = [v EXCEPT !.fault_latched = {event},
                        !.fault_unlatch_count = [v.fault_unlatch_count EXCEPT ![event] = 0]]
      BY <1>2 DEF LatchEvent
    <2>3. [v.fault_unlatch_count EXCEPT ![event] = 0] \in [Latches -> 0 .. UnlatchCycles - 1]
      BY <1>1
    <2>4. [v.fault_unlatch_count EXCEPT ![event] = 0][event] = 0
      BY <1>1, <2>1
    <2> HIDE DEF w
    <2>5. w \in VsmVariables
      BY <2>1, <2>2, <2>3 DEF VsmVariables
    <2>6. w.fault_latched = {event} /\ w.fault_unlatch_count = [v.fault_unlatch_count EXCEPT ![event] = 0]
      BY <2>2 DEF VsmVariables
    <2> QED BY <2>1, <2>2, <2>4, <2>5, <2>6 DEF w
  <1>3. CASE event \notin LatchedEvents
    <2>1. w = v
      BY <1>3 DEF LatchEvent
    <2> HIDE DEF w
    <2>2. v = [v EXCEPT !.fault_latched = v.fault_latched,
                        !.fault_unlatch_count = v.fault_unlatch_count]
      BY DEF VsmVariables
    <2> QED BY <2>1, <2>2 DEF w
  <1> QED BY <1>2, <1>3

LEMMA OnEventKeeps ==
  ASSUME NEW p \in BOOLEAN, NEW v, VInv(v, p), NEW event \in Raised,
         event = "SC_KILL" => v.state # "INIT"
  PROVE  LET w == OnEvent(v, event)
         IN  /\ VInv(w, p) /\ Raises(v, w) /\ CountersKept(v, w)
             /\ w.creep_debounce_count = v.creep_debounce_count
             /\ w.state = IF v.state \in DrivingStates /\ event \in DOMAIN transition_table[v.state]
                          THEN transition_table[v.state][event] ELSE v.state
  <1> DEFINE w == OnEvent(v, event)
  <1>1. v \in VsmVariables /\ v.state \in States \ {"SHUTDOWN"}
    BY Fields DEF VInv
  <1>2. event \notin {"SELF_TEST_PASS"}
    BY DEF Raised
  <1>3. CASE event \notin DOMAIN transition_table[v.state]
    <2>1. w = v
      BY <1>2, <1>3 DEF OnEvent
    <2> HIDE DEF w
    <2>2. Raises(v, v) /\ CountersKept(v, v)
      BY StateNames, <1>1 DEF Raises, CountersKept
    <2> QED BY <1>3, <2>1, <2>2 DEF w
  <1>4. CASE event \in DOMAIN transition_table[v.state]
    <2> DEFINE next == transition_table[v.state][event]
               u == EnterState(v, next)
    <2>1. v.state \in DrivingStates
      BY <1>1, <1>4, StateNames, Table
    <2>2. next \in DrivingStates \cup {"SAFE_STOP"} /\ next \in States \ {"SHUTDOWN"}
      BY <1>4, <2>1, StateNames, Table
    <2>3. v.fault_latched = {} /\ v.state # "SAFE_STOP" /\ v.safe_stop_clear_count = 0
      BY <2>1, StateNames DEF VInv
    <2>4. w = IF next = "SAFE_STOP" THEN LatchEvent(u, event) ELSE u
      BY <1>2, <1>4 DEF OnEvent, LatchEvent
    <2> HIDE DEF next
    <2>5. /\ u = [v EXCEPT !.state = next, !.mode = u.mode]
          /\ u \in VsmVariables /\ u.state = next /\ u.mode # "SHUTDOWN"
          /\ p => u.mode # "STARTUP"
          /\ next = "SAFE_STOP" => u.mode = "SAFE_STOP" \/ (u.mode = "STARTUP" /\ ~p)
      BY <1>1, <2>2, EnterKeeps DEF VInv
    <2> HIDE DEF u, w
    <2>6. u.fault_latched = {} /\ u.fault_unlatch_count = v.fault_unlatch_count
      BY <1>1, <2>3, <2>5 DEF VsmVariables
    <2>7. /\ u.init_hold_counter = v.init_hold_counter
          /\ u.safe_stop_clear_count = v.safe_stop_clear_count
          /\ u.self_test_pass_pending = v.self_test_pass_pending
          /\ u.post_init_grace_counter = v.post_init_grace_counter
          /\ u.fault_confirm_count = v.fault_confirm_count
          /\ u.creep_debounce_count = v.creep_debounce_count
      BY <1>1, <2>5 DEF VsmVariables
    <2>8. CASE next = "SAFE_STOP"
      <3>1. /\ w \in VsmVariables
            /\ w = [u EXCEPT !.fault_latched = w.fault_latched,
                             !.fault_unlatch_count = w.fault_unlatch_count]
            /\ w.fault_latched # {} => \E l \in Latches : w.fault_latched = {l}
            /\ \A l \in w.fault_latched : w.fault_unlatch_count[l] = 0
        <4>1. w = LatchEvent(u, event)
          BY <2>4, <2>8
        <4>2. u \in VsmVariables /\ u.fault_latched = {}
          BY <2>5, <2>6
        <4> QED BY <4>1, <4>2, LatchKeeps
      <3>2. /\ w.init_hold_counter = u.init_hold_counter
            /\ w.safe_stop_clear_count = u.safe_stop_clear_count
            /\ w.self_test_pass_pending = u.self_test_pass_pending
            /\ w.post_init_grace_counter = u.post_init_grace_counter
            /\ w.fault_confirm_count = u.fault_confirm_count
            /\ w.creep_debounce_count = u.creep_debounce_count
            /\ w.state = u.state /\ w.mode = u.mode
        BY <2>5, <3>1 DEF VsmVariables
      <3>3. VInv(w, p)
        BY <2>3, <2>5, <2>7, <2>8, <3>1, <3>2 DEF VInv
      <3>4. Raises(v, w) /\ CountersKept(v, w)
        BY <2>1, <2>2, <2>5, <2>7, <3>1, <3>2 DEF Raises, CountersKept
      <3> QED BY <1>4, <2>1, <2>5, <2>7, <3>2, <3>3, <3>4 DEF w, next
    <2>9. CASE next # "SAFE_STOP"
      <3>1. w = u
        BY <2>4, <2>9
      <3>2. VInv(u, p)
        BY <1>1, <2>2, <2>3, <2>5, <2>6, <2>7, <2>9 DEF VInv
      <3>3. Raises(v, u) /\ CountersKept(v, u)
        BY <2>1, <2>2, <2>5, <2>7, <2>9 DEF Raises, CountersKept
      <3> QED BY <1>4, <2>1, <2>5, <2>7, <3>1, <3>2, <3>3 DEF w, next
    <2> QED BY <2>8, <2>9
  <1> QED BY <1>3, <1>4

-----------------------------------------------------------------------------
(* Step 3: the events derived from the signals *)

\* An event that is raised or not.
LEMMA OnEventIfKeeps ==
  ASSUME NEW p \in BOOLEAN, NEW v, VInv(v, p), CreepOk(v), NEW condition \in BOOLEAN,
         NEW event \in Raised, condition /\ event = "SC_KILL" => v.state # "INIT"
  PROVE  LET w == OnEventIf(v, condition, event)
         IN  /\ Derived(v, w, p)
             /\ condition /\ event \in Stopping => w.state \notin DrivingStates
             /\ w.state = "RUN" /\ event # "FAULT_CLEARED" => v.state = "RUN"
             /\ condition /\ event = "MOTOR_CUTOFF" =>
                  w.state # "RUN" /\ (w.state \in DrivingStates => v.state = "RUN")
  <1> DEFINE w == OnEventIf(v, condition, event)
  <1>1. v \in VsmVariables /\ v.state \in States \ {"SHUTDOWN"}
    BY Fields DEF VInv
  <1>2. CASE ~condition
    <2>1. w = v
      BY <1>2 DEF OnEventIf
    <2>2. Raises(v, v) /\ CountersKept(v, v)
      BY StateNames, <1>1 DEF Raises, CountersKept
    <2> QED BY <1>2, <2>1, <2>2 DEF Derived
  <1>3. CASE condition
    <2>1. w = OnEvent(v, event)
      BY <1>3 DEF OnEventIf
    <2> HIDE DEF w
    <2>2. /\ VInv(w, p) /\ Raises(v, w) /\ CountersKept(v, w)
          /\ w.creep_debounce_count = v.creep_debounce_count
          /\ w.state = IF v.state \in DrivingStates /\ event \in DOMAIN transition_table[v.state]
                       THEN transition_table[v.state][event] ELSE v.state
      BY <1>3, <2>1, OnEventKeeps
    <2>3. CreepOk(w)
      BY <2>2, StateNames DEF CreepOk, Raises
    <2>4. event \in Stopping => w.state \notin DrivingStates
      BY <1>1, <2>2, StateNames, Table
    <2>5. w.state = "RUN" /\ event # "FAULT_CLEARED" => v.state = "RUN"
      BY <1>1, <2>2, StateNames, Table
    <2>6. event = "MOTOR_CUTOFF" => w.state # "RUN" /\ (w.state \in DrivingStates => v.state = "RUN")
      BY <1>1, <2>2, StateNames, Table
    <2> QED BY <1>3, <2>2, <2>3, <2>4, <2>5, <2>6 DEF Derived, w
  <1> QED BY <1>2, <1>3

LEMMA DerivedTransitive ==
  ASSUME NEW p \in BOOLEAN, NEW u, NEW v, NEW w,
         VInv(u, p), Derived(u, v, p), Derived(v, w, p)
  PROVE  Derived(u, w, p)
  <1>1. u.state \in States /\ v.state \in States
    BY Fields DEF Derived, VInv
  <1>2. Raises(u, w)
    BY <1>1, RaisesTransitive DEF Derived
  <1> QED BY <1>2 DEF Derived, CountersKept

LEMMA DerivedSelf ==
  ASSUME NEW p \in BOOLEAN, NEW v, VInv(v, p), CreepOk(v)
  PROVE  Derived(v, v, p)
  <1>1. v.state \in States \ {"SHUTDOWN"}
    BY Fields DEF VInv
  <1> QED BY <1>1, StateNames DEF Derived, Raises, CountersKept

\* A driving state is not entered by events from any other.
LEMMA NotDrivingStays ==
  ASSUME NEW p, NEW v, NEW w, Derived(v, w, p), v.state \notin DrivingStates
  PROVE  w.state \notin DrivingStates
  BY DEF Derived, Raises

\* What the main function reads: truth values, and the state of the battery.
Inputs(in) ==
    /\ {in.motor_cutoff, in.motor_fault_rzc, in.brake_fault, in.steering_fault, in.sc_killed,
        in.estop_active, in.pedal_fault, in.fzc_timeout, in.rzc_timeout} \subseteq BOOLEAN
    /\ in.battery \in {"NORMAL", "WARN", "CRIT"}
    /\ in.torque \in {"none", "unintended", "pedal"}

LEMMA CanEventsKeep ==
  ASSUME NEW p \in BOOLEAN, NEW v, VInv(v, p), CreepOk(v), NEW in, Inputs(in)
  PROVE  LET w == CanEvents(v, in)
         IN  /\ Derived(v, w, p)
             /\ in.fzc_timeout /\ in.rzc_timeout => w.state \notin DrivingStates
             /\ w.state = "RUN" => v.state = "RUN"
  <1> DEFINE limp == v.state = "LIMP"
             able == v.state \in {"RUN", "DEGRADED"}
             dual == OnEventIf(v, TRUE, "CAN_TIMEOUT_DUAL")
             restored == OnEventIf(v, limp, "CAN_RESTORED")
             single == OnEventIf(v, able, "CAN_TIMEOUT_SINGLE")
             w == CanEvents(v, in)
  <1>1. \/ in.fzc_timeout /\ in.rzc_timeout /\ w = dual
        \/ ~(in.fzc_timeout /\ in.rzc_timeout) /\ w \in {restored, single}
    BY DEF CanEvents, OnEventIf
  <1>2. /\ {"CAN_TIMEOUT_DUAL", "CAN_TIMEOUT_SINGLE", "CAN_RESTORED"} \subseteq Raised
        /\ "CAN_TIMEOUT_DUAL" \in Stopping /\ limp \in BOOLEAN /\ able \in BOOLEAN
    BY DEF Raised, Stopping
  <1> HIDE DEF limp, able
  <1>3. /\ Derived(v, dual, p) /\ dual.state \notin DrivingStates
        /\ dual.state = "RUN" => v.state = "RUN"
    BY <1>2, OnEventIfKeeps
  <1>4. Derived(v, restored, p) /\ (restored.state = "RUN" => v.state = "RUN")
    BY <1>2, OnEventIfKeeps
  <1>5. Derived(v, single, p) /\ (single.state = "RUN" => v.state = "RUN")
    BY <1>2, OnEventIfKeeps
  <1> HIDE DEF dual, restored, single, w
  <1>6. /\ Derived(v, w, p) /\ (w.state = "RUN" => v.state = "RUN")
        /\ in.fzc_timeout /\ in.rzc_timeout => w.state \notin DrivingStates
    BY <1>1, <1>3, <1>4, <1>5
  <1> QED BY <1>6 DEF w

LEMMA BatteryEventsKeep ==
  ASSUME NEW p \in BOOLEAN, NEW v, VInv(v, p), CreepOk(v), NEW in
  PROVE  LET w == BatteryEvents(v, in)
         IN  Derived(v, w, p) /\ (w.state = "RUN" => v.state = "RUN")
  <1> DEFINE crit == v.state \in DrivingStates /\ in.battery = "CRIT"
             warn == v.state \in DrivingStates /\ in.battery = "WARN"
             u == OnEventIf(v, crit, "BATTERY_CRIT")
             w == OnEventIf(u, warn, "BATTERY_WARN")
  <1>1. BatteryEvents(v, in) = w
    BY DEF BatteryEvents
  <1>2. crit \in BOOLEAN /\ warn \in BOOLEAN /\ "BATTERY_CRIT" \in Raised /\ "BATTERY_WARN" \in Raised
    BY DEF Raised
  <1>3. Derived(v, u, p) /\ (u.state = "RUN" => v.state = "RUN")
    <2> HIDE DEF crit
    <2> QED BY <1>2, OnEventIfKeeps
  <1>4. VInv(u, p) /\ CreepOk(u)
    BY <1>3 DEF Derived
  <1>5. Derived(u, w, p) /\ (w.state = "RUN" => u.state = "RUN")
    <2> HIDE DEF warn, u
    <2> QED BY <1>2, <1>4, OnEventIfKeeps
  <1> HIDE DEF u, w
  <1> QED BY <1>1, <1>3, <1>5, DerivedTransitive

\* The debounce that reaches its limit stops the vehicle in the same pass.
LEMMA CreepGuardKeeps ==
  ASSUME NEW p \in BOOLEAN, NEW v, VInv(v, p), CreepOk(v), NEW in
  PROVE  LET w == CreepGuard(v, in)
         IN  Derived(v, w, p) /\ (w.state = "RUN" => v.state = "RUN")
  <1> DEFINE w == CreepGuard(v, in)
             n == v.creep_debounce_count + 1
             reset == [v EXCEPT !.creep_debounce_count = 0]
             counted == [v EXCEPT !.creep_debounce_count = n]
  <1>1. v \in VsmVariables /\ v.state \in States \ {"SHUTDOWN"}
        /\ v.creep_debounce_count \in 0 .. CreepDebounceTicks
    BY Fields DEF VInv
  <1>2. Derived(v, v, p)
    BY DerivedSelf
  <1>3. Derived(v, reset, p) /\ reset.state = v.state
    <2>1. reset \in VsmVariables /\ reset.creep_debounce_count = 0 /\ 0 < CreepDebounceTicks
      BY <1>1, Constants DEF VsmVariables
    <2>2. /\ reset.state = v.state /\ reset.mode = v.mode
          /\ reset.self_test_pass_pending = v.self_test_pass_pending
          /\ reset.init_hold_counter = v.init_hold_counter
          /\ reset.safe_stop_clear_count = v.safe_stop_clear_count
          /\ reset.fault_latched = v.fault_latched
          /\ reset.fault_unlatch_count = v.fault_unlatch_count
          /\ CountersKept(v, reset)
      BY <1>1 DEF VsmVariables, CountersKept
    <2> HIDE DEF reset
    <2>3. VInv(reset, p)
      BY <2>1, <2>2 DEF VInv
    <2>4. Raises(v, reset)
      BY <1>1, <2>2, StateNames DEF Raises
    <2> QED BY <2>1, <2>2, <2>3, <2>4 DEF Derived, CreepOk
  <1>4. CASE v.state \notin DrivingStates \/ in.pedal_fault \/ in.torque = "pedal"
    <2>1. w = v
      BY <1>4 DEF CreepGuard
    <2> QED BY <1>2, <2>1
  <1>5. CASE ~(v.state \notin DrivingStates \/ in.pedal_fault \/ in.torque = "pedal") /\ in.torque = "none"
    <2>1. w = reset
      BY <1>5 DEF CreepGuard
    <2> QED BY <1>3, <2>1
  <1>6. CASE ~(v.state \notin DrivingStates \/ in.pedal_fault \/ in.torque = "pedal") /\ in.torque # "none"
    <2>1. w = OnEventIf(counted, counted.creep_debounce_count >= CreepDebounceTicks, "CREEP_FAULT")
      BY <1>6 DEF CreepGuard
    <2>2. v.creep_debounce_count < CreepDebounceTicks /\ n \in 0 .. CreepDebounceTicks
      BY <1>1, <1>6, Constants DEF CreepOk
    <2> HIDE DEF n
    <2>3. counted \in VsmVariables /\ counted.creep_debounce_count = n
      BY <1>1, <2>2 DEF VsmVariables
    <2>4. /\ counted.state = v.state /\ counted.mode = v.mode
          /\ counted.self_test_pass_pending = v.self_test_pass_pending
          /\ counted.init_hold_counter = v.init_hold_counter
          /\ counted.safe_stop_clear_count = v.safe_stop_clear_count
          /\ counted.fault_latched = v.fault_latched
          /\ counted.fault_unlatch_count = v.fault_unlatch_count
          /\ CountersKept(v, counted)
      BY <1>1 DEF VsmVariables, CountersKept
    <2> HIDE DEF counted, w
    <2>5. VInv(counted, p)
      BY <2>3, <2>4 DEF VInv
    <2>6. Raises(v, counted)
      BY <1>1, <2>4, StateNames DEF Raises
    <2>7. CASE n < CreepDebounceTicks
      <3>1. w = counted
        BY <2>1, <2>2, <2>3, <2>7, Constants DEF OnEventIf
      <3> QED BY <2>3, <2>4, <2>5, <2>6, <2>7, <3>1 DEF Derived, CreepOk, w
    <2>8. CASE ~(n < CreepDebounceTicks)
      <3>1. w = OnEvent(counted, "CREEP_FAULT")
        BY <2>1, <2>2, <2>3, <2>8, Constants DEF OnEventIf
      <3>2. "CREEP_FAULT" \in Raised /\ "CREEP_FAULT" \in Stopping
        BY DEF Raised, Stopping
      <3>3. /\ VInv(w, p) /\ Raises(counted, w) /\ CountersKept(counted, w)
            /\ w.state = IF counted.state \in DrivingStates
                            /\ "CREEP_FAULT" \in DOMAIN transition_table[counted.state]
                         THEN transition_table[counted.state]["CREEP_FAULT"] ELSE counted.state
        BY <2>5, <3>1, <3>2, OnEventKeeps
      <3>4. w.state = "SAFE_STOP"
        BY <1>6, <2>4, <3>2, <3>3, Table
      <3>5. Raises(v, w)
        BY <1>1, <2>4, <2>6, <3>3, RaisesTransitive
      <3> QED BY <2>4, <3>3, <3>4, <3>5, StateNames DEF Derived, CreepOk, CountersKept, w
    <2> QED BY <2>7, <2>8
  <1> QED BY <1>4, <1>5, <1>6

LEMMA DeriveEventsKeep ==
  ASSUME NEW p \in BOOLEAN, NEW v, VInv(v, p), CreepOk(v), NEW in, Inputs(in)
  PROVE  LET w == DeriveEvents(v, in)
         IN  /\ Derived(v, w, p)
             /\ in.estop_active => w.state \notin DrivingStates
             /\ in.fzc_timeout /\ in.rzc_timeout => w.state \notin DrivingStates
             /\ in.sc_killed /\ v.post_init_grace_counter = 0 => w.state \notin DrivingStates
             /\ in.motor_cutoff /\ w.state = "RUN" => v.state = "RUN"
  <1> DEFINE v1 == OnEventIf(v, in.estop_active, "ESTOP")
             killed == in.sc_killed /\ v1.state # "INIT" /\ v1.post_init_grace_counter = 0
             v2 == OnEventIf(v1, killed, "SC_KILL")
             v3 == CanEvents(v2, in)
             single == v3.state = "RUN" /\ in.pedal_fault
             v4 == OnEventIf(v3, single, "PEDAL_FAULT_SINGLE")
             vb == BatteryEvents(v4, in)
             v5 == CreepGuard(vb, in)
             cleared == v5.state = "DEGRADED" /\ DegradedFaultsClear(in)
             w == OnEventIf(v5, cleared, "FAULT_CLEARED")
  <1>1. DeriveEvents(v, in) = w
    BY DEF DeriveEvents
  <1>2. /\ {"ESTOP", "SC_KILL", "PEDAL_FAULT_SINGLE", "FAULT_CLEARED"} \subseteq Raised
        /\ {"ESTOP", "SC_KILL"} \subseteq Stopping
    BY DEF Raised, Stopping
  <1>3. in.estop_active \in BOOLEAN /\ killed \in BOOLEAN /\ single \in BOOLEAN /\ cleared \in BOOLEAN
    BY DEF Inputs
  <1>4. /\ killed => v1.state # "INIT"
        /\ killed <=> in.sc_killed /\ v1.state # "INIT" /\ v1.post_init_grace_counter = 0
    OBVIOUS
  <1>5. cleared => ~in.motor_cutoff
    BY DEF DegradedFaultsClear
  <1>6. /\ Derived(v, v1, p) /\ (v1.state = "RUN" => v.state = "RUN")
        /\ in.estop_active => v1.state \notin DrivingStates
    BY <1>2, <1>3, OnEventIfKeeps
  <1> HIDE DEF v1, killed
  <1>7. VInv(v1, p) /\ CreepOk(v1)
    BY <1>6 DEF Derived
  <1>8. /\ Derived(v1, v2, p) /\ (v2.state = "RUN" => v1.state = "RUN")
        /\ killed => v2.state \notin DrivingStates
    BY <1>2, <1>3, <1>4, <1>7, OnEventIfKeeps
  <1> HIDE DEF v2
  <1>9. VInv(v2, p) /\ CreepOk(v2)
    BY <1>8 DEF Derived
  <1>10. /\ Derived(v2, v3, p) /\ (v3.state = "RUN" => v2.state = "RUN")
         /\ in.fzc_timeout /\ in.rzc_timeout => v3.state \notin DrivingStates
    BY <1>9, CanEventsKeep
  <1> HIDE DEF v3, single
  <1>11. VInv(v3, p) /\ CreepOk(v3)
    BY <1>10 DEF Derived
  <1>12. Derived(v3, v4, p) /\ (v4.state = "RUN" => v3.state = "RUN")
    BY <1>2, <1>3, <1>11, OnEventIfKeeps
  <1> HIDE DEF v4
  <1>13. VInv(v4, p) /\ CreepOk(v4)
    BY <1>12 DEF Derived
  <1>14. Derived(v4, vb, p) /\ (vb.state = "RUN" => v4.state = "RUN")
    BY <1>13, BatteryEventsKeep
  <1> HIDE DEF vb
  <1>15. VInv(vb, p) /\ CreepOk(vb)
    BY <1>14 DEF Derived
  <1>16. Derived(vb, v5, p) /\ (v5.state = "RUN" => vb.state = "RUN")
    BY <1>15, CreepGuardKeeps
  <1> HIDE DEF v5, cleared
  <1>17. VInv(v5, p) /\ CreepOk(v5)
    BY <1>16 DEF Derived
  <1>18. Derived(v5, w, p)
    BY <1>2, <1>3, <1>17, OnEventIfKeeps
  <1>19. ~cleared => w = v5
    BY DEF OnEventIf
  <1> HIDE DEF w
  <1>20. Derived(v, v2, p)
    BY <1>6, <1>8, DerivedTransitive
  <1>21. Derived(v3, w, p)
    <2>1. Derived(v3, vb, p)
      BY <1>11, <1>12, <1>14, DerivedTransitive
    <2>2. Derived(v3, v5, p)
      BY <1>11, <1>16, <2>1, DerivedTransitive
    <2> QED BY <1>11, <1>18, <2>2, DerivedTransitive
  <1>22. Derived(v2, w, p)
    BY <1>9, <1>10, <1>21, DerivedTransitive
  <1>23. Derived(v1, w, p)
    BY <1>7, <1>8, <1>22, DerivedTransitive
  <1>24. Derived(v, w, p)
    BY <1>20, <1>22, DerivedTransitive
  <1>25. in.estop_active => w.state \notin DrivingStates
    BY <1>6, <1>23, NotDrivingStays
  <1>26. in.fzc_timeout /\ in.rzc_timeout => w.state \notin DrivingStates
    BY <1>10, <1>21, NotDrivingStays
  <1>27. in.sc_killed /\ v.post_init_grace_counter = 0 => w.state \notin DrivingStates
    <2>1. SUFFICES ASSUME in.sc_killed, v.post_init_grace_counter = 0
                   PROVE  w.state \notin DrivingStates
      OBVIOUS
    <2>2. v1.post_init_grace_counter = 0
      BY <1>6, <2>1 DEF Derived, CountersKept
    <2>3. CASE v1.state = "INIT"
      BY <1>23, <2>3, NotDrivingStays, StateNames
    <2>4. CASE v1.state # "INIT"
      BY <1>4, <1>8, <1>22, <2>1, <2>2, <2>4, NotDrivingStays
    <2> QED BY <2>3, <2>4
  <1>28. in.motor_cutoff /\ w.state = "RUN" => v.state = "RUN"
    BY <1>5, <1>6, <1>8, <1>10, <1>12, <1>14, <1>16, <1>19
  <1> QED BY <1>1, <1>24, <1>25, <1>26, <1>27, <1>28

-----------------------------------------------------------------------------
(* Step 4: the faults that are confirmed before they are acted upon *)

\* What step 4 may do: as the events, but it counts.
Confirms(v, w, p) ==
    /\ VInv(w, p) /\ CreepOk(w) /\ Raises(v, w)
    /\ w.state = "RUN" => v.state = "RUN"

NextCount(active, count) == IF active /\ count + 1 < ConfirmThreshold THEN count + 1 ELSE 0

LEMMA ConfirmFaultKeeps ==
  ASSUME NEW p \in BOOLEAN, NEW v, VInv(v, p), CreepOk(v), NEW fault \in DOMAIN NoFaultCounted,
         NEW active \in BOOLEAN, NEW fresh \in BOOLEAN,
         NEW event \in {"MOTOR_CUTOFF", "BRAKE_FAULT", "STEERING_FAULT"}
  PROVE  LET w == ConfirmFault(v, fault, active, fresh, event)
             count == v.fault_confirm_count[fault]
             due == active /\ fresh /\ ~(count + 1 < ConfirmThreshold)
         IN  /\ Confirms(v, w, p)
             /\ w.post_init_grace_counter = v.post_init_grace_counter
             /\ w.fault_confirm_count =
                  [v.fault_confirm_count EXCEPT ![fault] = NextCount(active, count)]
             /\ due /\ event \in Stopping => w.state \notin DrivingStates
             /\ due /\ event = "MOTOR_CUTOFF" =>
                  w.state # "RUN" /\ (w.state \in DrivingStates => v.state = "RUN")
  <1> DEFINE w == ConfirmFault(v, fault, active, fresh, event)
             count == v.fault_confirm_count[fault]
             next == NextCount(active, count)
             due == active /\ fresh /\ ~(count + 1 < ConfirmThreshold)
             u == IF active /\ ~(count + 1 < ConfirmThreshold) THEN OnEventIf(v, fresh, event) ELSE v
  <1>1. v \in VsmVariables /\ v.fault_confirm_count \in [DOMAIN NoFaultCounted -> 0 .. ConfirmThreshold - 1]
    BY Fields DEF VInv
  <1>2. count \in 0 .. ConfirmThreshold - 1 /\ next \in 0 .. ConfirmThreshold - 1
    BY <1>1, Constants DEF NextCount
  <1>3. event \in Raised /\ event # "SC_KILL" /\ event # "FAULT_CLEARED"
    BY DEF Raised
  <1>4. /\ Derived(v, u, p) /\ (u.state = "RUN" => v.state = "RUN")
        /\ due /\ event \in Stopping => u.state \notin DrivingStates
        /\ due /\ event = "MOTOR_CUTOFF" =>
             u.state # "RUN" /\ (u.state \in DrivingStates => v.state = "RUN")
    <2>1. CASE active /\ ~(count + 1 < ConfirmThreshold)
      <3> DEFINE x == OnEventIf(v, fresh, event)
      <3>1. u = x /\ (due => fresh)
        BY <2>1
      <3>2. /\ Derived(v, x, p)
            /\ fresh /\ event \in Stopping => x.state \notin DrivingStates
            /\ x.state = "RUN" => v.state = "RUN"
            /\ fresh /\ event = "MOTOR_CUTOFF" =>
                 x.state # "RUN" /\ (x.state \in DrivingStates => v.state = "RUN")
        BY <1>3, OnEventIfKeeps
      <3> HIDE DEF x, u, due
      <3> QED BY <3>1, <3>2
    <2>2. CASE ~(active /\ ~(count + 1 < ConfirmThreshold))
      <3>1. u = v /\ ~due
        BY <2>2
      <3> HIDE DEF u, due
      <3> QED BY <3>1, DerivedSelf
    <2> QED BY <2>1, <2>2
  <1>5. w = [u EXCEPT !.fault_confirm_count = [u.fault_confirm_count EXCEPT ![fault] = next]]
    <2>1. w = [u EXCEPT !.fault_confirm_count[fault] = next]
      <3>1. CASE ~active
        BY <3>1 DEF ConfirmFault, NextCount
      <3>2. CASE active /\ count + 1 < ConfirmThreshold
        BY <3>2 DEF ConfirmFault, NextCount
      <3>3. CASE active /\ ~(count + 1 < ConfirmThreshold)
        BY <3>3 DEF ConfirmFault, NextCount
      <3> QED BY <3>1, <3>2, <3>3
    <2> QED BY <2>1
  <1> HIDE DEF w, u, next, due
  <1>6. /\ u \in VsmVariables /\ VInv(u, p) /\ CreepOk(u) /\ Raises(v, u)
        /\ u.fault_confirm_count = v.fault_confirm_count
        /\ u.post_init_grace_counter = v.post_init_grace_counter
    BY <1>4 DEF Derived, VInv, CountersKept
  <1>7. [u.fault_confirm_count EXCEPT ![fault] = next] \in [DOMAIN NoFaultCounted -> 0 .. ConfirmThreshold - 1]
    BY <1>1, <1>2, <1>6
  <1>8. w \in VsmVariables
    BY <1>5, <1>6, <1>7 DEF VsmVariables
  <1>9. /\ w.fault_confirm_count = [v.fault_confirm_count EXCEPT ![fault] = next]
        /\ w.state = u.state /\ w.mode = u.mode
        /\ w.self_test_pass_pending = u.self_test_pass_pending
        /\ w.init_hold_counter = u.init_hold_counter
        /\ w.safe_stop_clear_count = u.safe_stop_clear_count
        /\ w.post_init_grace_counter = u.post_init_grace_counter
        /\ w.creep_debounce_count = u.creep_debounce_count
        /\ w.fault_latched = u.fault_latched
        /\ w.fault_unlatch_count = u.fault_unlatch_count
    BY <1>5, <1>6 DEF VsmVariables
  <1>10. VInv(w, p) /\ CreepOk(w)
    BY <1>6, <1>8, <1>9 DEF VInv, CreepOk
  <1>11. Raises(v, w)
    BY <1>6, <1>9 DEF Raises
  <1>12. Confirms(v, w, p)
    BY <1>4, <1>9, <1>10, <1>11 DEF Confirms
  <1> QED BY <1>4, <1>6, <1>9, <1>12 DEF w, next, due

LEMMA ConfirmsTransitive ==
  ASSUME NEW p, NEW u, NEW v, NEW w, Confirms(u, v, p), Confirms(v, w, p), VInv(u, p)
  PROVE  Confirms(u, w, p)
  <1>1. u.state \in States /\ v.state \in States
    BY Fields DEF Confirms, VInv
  <1>2. Raises(u, w)
    BY <1>1, RaisesTransitive DEF Confirms
  <1> QED BY <1>2 DEF Confirms

LEMMA StaysStopped ==
  ASSUME NEW p, NEW v, NEW w, Confirms(v, w, p), v.state \notin DrivingStates
  PROVE  w.state \notin DrivingStates
  BY DEF Confirms, Raises

\* The buffers whose fresh value confirms a fault.
Buffers(buf) == {buf.motor_cutoff, buf.motor_fault_rzc, buf.brake_fault} \subseteq BOOLEAN

\* The confirmation counters of the two faults whose stop is in question.
BrakeCounted(v, w, in, buf) ==
    in.brake_fault /\ buf.brake_fault /\ w.state \in DrivingStates =>
        /\ v.fault_confirm_count["BRAKE"] + 1 < ConfirmThreshold
        /\ w.fault_confirm_count["BRAKE"] = v.fault_confirm_count["BRAKE"] + 1

MotorCounted(v, w, in, buf) ==
    in.motor_cutoff /\ buf.motor_cutoff /\ w.state \in DrivingStates =>
        \/ /\ v.fault_confirm_count["MOTOR_CUTOFF"] + 1 < ConfirmThreshold
           /\ w.fault_confirm_count["MOTOR_CUTOFF"] = v.fault_confirm_count["MOTOR_CUTOFF"] + 1
        \/ /\ v.state = "RUN" /\ w.state # "RUN"
           /\ w.fault_confirm_count["MOTOR_CUTOFF"] = 0

LEMMA ConfirmFaultsKeep ==
  ASSUME NEW p \in BOOLEAN, NEW v, VInv(v, p), CreepOk(v), NEW in, Inputs(in), NEW buf, Buffers(buf)
  PROVE  LET w == ConfirmFaults(v, in, buf)
         IN  /\ Confirms(v, w, p)
             /\ v.post_init_grace_counter > 0 =>
                  /\ w.post_init_grace_counter = v.post_init_grace_counter - 1
                  /\ w.state = v.state /\ w.fault_confirm_count = v.fault_confirm_count
             /\ v.post_init_grace_counter = 0 =>
                  /\ w.post_init_grace_counter = 0
                  /\ BrakeCounted(v, w, in, buf) /\ MotorCounted(v, w, in, buf)
  <1> DEFINE w == ConfirmFaults(v, in, buf)
  <1>1. /\ v \in VsmVariables /\ v.state \in States \ {"SHUTDOWN"}
        /\ v.post_init_grace_counter \in 0 .. PostInitGraceCycles
        /\ v.fault_confirm_count \in [DOMAIN NoFaultCounted -> 0 .. ConfirmThreshold - 1]
    BY Fields DEF VInv
  <1>2. Confirms(v, v, p)
    BY <1>1, DerivedSelf DEF Confirms, Derived
  <1>3. CASE v.post_init_grace_counter > 0
    <2> DEFINE n == v.post_init_grace_counter - 1
               u == [v EXCEPT !.post_init_grace_counter = n]
    <2>1. w = u
      BY <1>3 DEF ConfirmFaults
    <2>2. n \in 0 .. PostInitGraceCycles
      BY <1>1, <1>3, Constants
    <2> HIDE DEF n, w
    <2>3. u \in VsmVariables
      BY <1>1, <2>2 DEF VsmVariables
    <2>4. /\ u.state = v.state /\ u.mode = v.mode
          /\ u.self_test_pass_pending = v.self_test_pass_pending
          /\ u.init_hold_counter = v.init_hold_counter
          /\ u.safe_stop_clear_count = v.safe_stop_clear_count
          /\ u.post_init_grace_counter = n
          /\ u.creep_debounce_count = v.creep_debounce_count
          /\ u.fault_confirm_count = v.fault_confirm_count
          /\ u.fault_latched = v.fault_latched
          /\ u.fault_unlatch_count = v.fault_unlatch_count
      BY <1>1 DEF VsmVariables
    <2> HIDE DEF u
    <2>5. VInv(u, p) /\ CreepOk(u) /\ Raises(v, u)
      BY <1>1, <2>3, <2>4, StateNames DEF VInv, CreepOk, Raises
    <2>6. Confirms(v, u, p)
      BY <2>4, <2>5 DEF Confirms
    <2> QED BY <1>3, <2>1, <2>4, <2>6 DEF n, w
  <1>4. CASE v.post_init_grace_counter = 0 /\ v.state = "INIT"
    <2>1. w = v
      BY <1>4 DEF ConfirmFaults
    <2> QED BY <1>2, <1>4, <2>1, StateNames DEF BrakeCounted, MotorCounted
  <1>5. CASE v.post_init_grace_counter = 0 /\ v.state # "INIT"
    <2> DEFINE fresh == TRUE
               v1 == ConfirmFault(v, "MOTOR_CUTOFF", in.motor_cutoff, buf.motor_cutoff, "MOTOR_CUTOFF")
               v2 == ConfirmFault(v1, "MOTOR_RZC", in.motor_fault_rzc, buf.motor_fault_rzc, "MOTOR_CUTOFF")
               v3 == ConfirmFault(v2, "BRAKE", in.brake_fault, buf.brake_fault, "BRAKE_FAULT")
               v4 == ConfirmFault(v3, "STEERING", in.steering_fault, fresh, "STEERING_FAULT")
    <2>1. w = v4
      BY <1>5 DEF ConfirmFaults
    <2>2. DOMAIN NoFaultCounted = {"MOTOR_CUTOFF", "MOTOR_RZC", "BRAKE", "STEERING"}
      BY DEF NoFaultCounted
    <2>3. /\ {in.motor_cutoff, in.motor_fault_rzc, in.brake_fault, in.steering_fault} \subseteq BOOLEAN
          /\ {buf.motor_cutoff, buf.motor_fault_rzc, buf.brake_fault, fresh} \subseteq BOOLEAN
          /\ "BRAKE_FAULT" \in Stopping
      BY DEF Inputs, Buffers, Stopping
    <2> HIDE DEF w, fresh
    <2>4. /\ Confirms(v, v1, p)
          /\ v1.post_init_grace_counter = v.post_init_grace_counter
          /\ v1.fault_confirm_count =
               [v.fault_confirm_count EXCEPT !["MOTOR_CUTOFF"] =
                   NextCount(in.motor_cutoff, v.fault_confirm_count["MOTOR_CUTOFF"])]
          /\ in.motor_cutoff /\ buf.motor_cutoff
               /\ ~(v.fault_confirm_count["MOTOR_CUTOFF"] + 1 < ConfirmThreshold) =>
                 v1.state # "RUN" /\ (v1.state \in DrivingStates => v.state = "RUN")
      <3>1. /\ in.motor_cutoff \in BOOLEAN /\ buf.motor_cutoff \in BOOLEAN
            /\ "MOTOR_CUTOFF" \in DOMAIN NoFaultCounted
            /\ "MOTOR_CUTOFF" \in {"MOTOR_CUTOFF", "BRAKE_FAULT", "STEERING_FAULT"}
        BY <2>2, <2>3
      <3> QED BY <3>1, ConfirmFaultKeeps
    <2> HIDE DEF v1
    <2>5. VInv(v1, p) /\ CreepOk(v1)
      BY <2>4 DEF Confirms
    <2>6. /\ Confirms(v1, v2, p)
          /\ v2.post_init_grace_counter = v1.post_init_grace_counter
          /\ v2.fault_confirm_count =
               [v1.fault_confirm_count EXCEPT !["MOTOR_RZC"] =
                   NextCount(in.motor_fault_rzc, v1.fault_confirm_count["MOTOR_RZC"])]
      BY <2>2, <2>3, <2>5, ConfirmFaultKeeps
    <2> HIDE DEF v2
    <2>7. VInv(v2, p) /\ CreepOk(v2)
      BY <2>6 DEF Confirms
    <2>8. /\ Confirms(v2, v3, p)
          /\ v3.post_init_grace_counter = v2.post_init_grace_counter
          /\ v3.fault_confirm_count =
               [v2.fault_confirm_count EXCEPT !["BRAKE"] =
                   NextCount(in.brake_fault, v2.fault_confirm_count["BRAKE"])]
          /\ in.brake_fault /\ buf.brake_fault
               /\ ~(v2.fault_confirm_count["BRAKE"] + 1 < ConfirmThreshold) =>
                 v3.state \notin DrivingStates
      <3>1. /\ in.brake_fault \in BOOLEAN /\ buf.brake_fault \in BOOLEAN
            /\ "BRAKE" \in DOMAIN NoFaultCounted
            /\ "BRAKE_FAULT" \in {"MOTOR_CUTOFF", "BRAKE_FAULT", "STEERING_FAULT"}
            /\ "BRAKE_FAULT" \in Stopping
        BY <2>2, <2>3
      <3> QED BY <2>7, <3>1, ConfirmFaultKeeps
    <2> HIDE DEF v3
    <2>9. VInv(v3, p) /\ CreepOk(v3)
      BY <2>8 DEF Confirms
    <2>10. /\ Confirms(v3, v4, p)
           /\ v4.post_init_grace_counter = v3.post_init_grace_counter
           /\ v4.fault_confirm_count =
                [v3.fault_confirm_count EXCEPT !["STEERING"] =
                    NextCount(in.steering_fault, v3.fault_confirm_count["STEERING"])]
      BY <2>2, <2>3, <2>9, ConfirmFaultKeeps
    <2> HIDE DEF v4
    <2>11. /\ Confirms(v2, v4, p)
           /\ Confirms(v1, v4, p)
           /\ Confirms(v, v4, p)
      <3>1. Confirms(v2, v4, p)
        BY <2>7, <2>8, <2>10, ConfirmsTransitive
      <3>2. Confirms(v1, v4, p)
        BY <2>5, <2>6, <3>1, ConfirmsTransitive
      <3> QED BY <2>4, <3>1, <3>2, ConfirmsTransitive
    <2>12. /\ v2.fault_confirm_count["BRAKE"] = v.fault_confirm_count["BRAKE"]
           /\ v4.fault_confirm_count["BRAKE"] =
                NextCount(in.brake_fault, v.fault_confirm_count["BRAKE"])
           /\ v4.fault_confirm_count["MOTOR_CUTOFF"] =
                NextCount(in.motor_cutoff, v.fault_confirm_count["MOTOR_CUTOFF"])
      BY <1>1, <2>2, <2>4, <2>6, <2>8, <2>10
    <2>13. BrakeCounted(v, v4, in, buf)
      <3> SUFFICES ASSUME in.brake_fault, buf.brake_fault, v4.state \in DrivingStates
                   PROVE  /\ v.fault_confirm_count["BRAKE"] + 1 < ConfirmThreshold
                          /\ v4.fault_confirm_count["BRAKE"] = v.fault_confirm_count["BRAKE"] + 1
        BY DEF BrakeCounted
      <3>1. v3.state \in DrivingStates
        BY <2>10, StaysStopped
      <3>2. v.fault_confirm_count["BRAKE"] + 1 < ConfirmThreshold
        BY <2>8, <2>12, <3>1
      <3> QED BY <2>12, <3>2 DEF NextCount
    <2>14. MotorCounted(v, v4, in, buf)
      <3> SUFFICES ASSUME in.motor_cutoff, buf.motor_cutoff, v4.state \in DrivingStates
                   PROVE  \/ /\ v.fault_confirm_count["MOTOR_CUTOFF"] + 1 < ConfirmThreshold
                             /\ v4.fault_confirm_count["MOTOR_CUTOFF"] =
                                  v.fault_confirm_count["MOTOR_CUTOFF"] + 1
                          \/ /\ v.state = "RUN" /\ v4.state # "RUN"
                             /\ v4.fault_confirm_count["MOTOR_CUTOFF"] = 0
        BY DEF MotorCounted
      <3>1. v1.state \in DrivingStates
        BY <2>11, StaysStopped
      <3>2. v4.state = "RUN" => v1.state = "RUN"
        BY <2>11 DEF Confirms
      <3>3. CASE v.fault_confirm_count["MOTOR_CUTOFF"] + 1 < ConfirmThreshold
        BY <2>12, <3>3 DEF NextCount
      <3>4. CASE ~(v.fault_confirm_count["MOTOR_CUTOFF"] + 1 < ConfirmThreshold)
        BY <2>4, <2>12, <3>1, <3>2, <3>4 DEF NextCount
      <3> QED BY <3>3, <3>4
    <2> QED BY <1>5, <2>1, <2>4, <2>6, <2>8, <2>10, <2>11, <2>13, <2>14 DEF w
  <1> QED BY <1>1, <1>3, <1>4, <1>5

-----------------------------------------------------------------------------
(* Steps 2 and 5, and the whole pass *)

LEMMA InitHoldKeeps ==
  ASSUME NEW p \in BOOLEAN, NEW v, VInv(v, p), CreepOk(v), NEW in
  PROVE  LET u == InitHold(v, in)
         IN  /\ VInv(u, p) /\ CreepOk(u)
             /\ v.state # "INIT" => u = v
             /\ v.state = "INIT" =>
                  \/ /\ u.state = "INIT"
                     /\ u.init_hold_counter = v.init_hold_counter
                          \/ u.init_hold_counter = v.init_hold_counter + 1
                  \/ /\ u.state = "RUN" /\ v.init_hold_counter + 1 >= InitHoldCycles
                     /\ u.post_init_grace_counter = PostInitGraceCycles
                     /\ u.fault_confirm_count = NoFaultCounted
  <1> DEFINE held == IF v.init_hold_counter < InitHoldCycles
                     THEN v.init_hold_counter + 1 ELSE v.init_hold_counter
             e == EnterState(v, "RUN")
             started == [e EXCEPT !.init_hold_counter = held,
                                  !.self_test_pass_pending = FALSE,
                                  !.creep_debounce_count = 0,
                                  !.fault_confirm_count = NoFaultCounted,
                                  !.post_init_grace_counter = PostInitGraceCycles]
             waiting == [v EXCEPT !.init_hold_counter = held]
             u == InitHold(v, in)
  <1>1. /\ v \in VsmVariables /\ v.state \in States \ {"SHUTDOWN"}
        /\ v.init_hold_counter \in 0 .. InitHoldCycles
    BY Fields DEF VInv
  <1>2. held \in 0 .. InitHoldCycles
    BY <1>1, Constants
  <1>3. held = v.init_hold_counter \/ held = v.init_hold_counter + 1
    OBVIOUS
  <1>4. held >= InitHoldCycles => v.init_hold_counter + 1 >= InitHoldCycles
    BY <1>1, Constants
  <1>5. \/ v.state # "INIT" /\ u = v
        \/ v.state = "INIT" /\ held >= InitHoldCycles /\ u = started
        \/ v.state = "INIT" /\ u = waiting
    BY DEF InitHold
  <1> HIDE DEF held, u
  <1>6. CASE v.state # "INIT"
    BY <1>5, <1>6 DEF u
  <1>7. CASE v.state = "INIT" /\ held >= InitHoldCycles /\ u = started
    <2>1. v.fault_latched = {} /\ v.safe_stop_clear_count = 0
      BY <1>7 DEF VInv
    <2>2. "RUN" \in States \ {"SHUTDOWN"}
      BY DEF States
    <2>3. /\ e = [v EXCEPT !.state = "RUN", !.mode = e.mode]
          /\ e \in VsmVariables /\ e.state = "RUN" /\ e.mode # "SHUTDOWN"
          /\ p => e.mode # "STARTUP"
      BY <1>1, <2>2, EnterKeeps DEF VInv
    <2> HIDE DEF e
    <2>4. e.fault_latched = {} /\ e.safe_stop_clear_count = 0
      BY <1>1, <2>1, <2>3 DEF VsmVariables
    <2>5. /\ NoFaultCounted \in [DOMAIN NoFaultCounted -> 0 .. ConfirmThreshold - 1]
          /\ 0 \in 0 .. CreepDebounceTicks /\ 0 < CreepDebounceTicks
          /\ PostInitGraceCycles \in 0 .. PostInitGraceCycles
      BY Constants DEF NoFaultCounted
    <2>6. started \in VsmVariables
      BY <1>2, <2>3, <2>5 DEF VsmVariables
    <2>7. /\ started.state = "RUN" /\ started.mode = e.mode
          /\ started.creep_debounce_count = 0
          /\ started.fault_confirm_count = NoFaultCounted
          /\ started.post_init_grace_counter = PostInitGraceCycles
          /\ started.fault_latched = {} /\ started.safe_stop_clear_count = 0
      BY <2>3, <2>4 DEF VsmVariables
    <2> HIDE DEF started
    <2>8. VInv(started, p) /\ CreepOk(started)
      BY <2>3, <2>5, <2>6, <2>7 DEF VInv, CreepOk
    <2> QED BY <1>4, <1>7, <2>7, <2>8 DEF u
  <1>8. CASE v.state = "INIT" /\ u = waiting
    <2>1. waiting \in VsmVariables
      BY <1>1, <1>2 DEF VsmVariables
    <2>2. /\ waiting.state = v.state /\ waiting.mode = v.mode
          /\ waiting.init_hold_counter = held
          /\ waiting.safe_stop_clear_count = v.safe_stop_clear_count
          /\ waiting.fault_latched = v.fault_latched
          /\ waiting.creep_debounce_count = v.creep_debounce_count
      BY <1>1 DEF VsmVariables
    <2> HIDE DEF waiting
    <2>3. VInv(waiting, p) /\ CreepOk(waiting)
      BY <1>8, <2>1, <2>2 DEF VInv, CreepOk
    <2> QED BY <1>3, <1>8, <2>2, <2>3 DEF u
  <1> QED BY <1>5, <1>6, <1>7, <1>8

\* What a latch does when its signal is there, gone, or gone for long enough.
LatchCounts(v, w, in, l) ==
    \/ Raw(in, l) /\ l \in w.fault_latched /\ w.fault_unlatch_count[l] = 0
    \/ /\ ~Raw(in, l) /\ v.fault_unlatch_count[l] + 1 >= UnlatchCycles
       /\ l \notin w.fault_latched
    \/ /\ ~Raw(in, l) /\ l \in w.fault_latched
       /\ w.fault_unlatch_count[l] = v.fault_unlatch_count[l] + 1

LEMMA UnlatchKeeps ==
  ASSUME NEW v \in VsmVariables, NEW in
  PROVE  LET w == Unlatch(v, in)
         IN  /\ w = [v EXCEPT !.fault_latched = w.fault_latched,
                              !.fault_unlatch_count = w.fault_unlatch_count]
             /\ w \in VsmVariables
             /\ w.fault_latched \subseteq v.fault_latched
             /\ \A l \in v.fault_latched : LatchCounts(v, w, in, l)
  <1> DEFINE released == {l \in v.fault_latched :
                            ~Raw(in, l) /\ v.fault_unlatch_count[l] + 1 >= UnlatchCycles}
             kept == v.fault_latched \ released
             count == [l \in Latches |->
                         IF l \notin v.fault_latched THEN v.fault_unlatch_count[l]
                         ELSE IF Raw(in, l) \/ l \in released THEN 0
                         ELSE v.fault_unlatch_count[l] + 1]
             w == Unlatch(v, in)
  <1>1. w = [v EXCEPT !.fault_latched = kept, !.fault_unlatch_count = count]
    BY DEF Unlatch
  <1>2. /\ v.fault_latched \subseteq Latches
        /\ v.fault_unlatch_count \in [Latches -> 0 .. UnlatchCycles - 1]
    BY Fields
  <1>3. kept \subseteq v.fault_latched
    OBVIOUS
  <1>4. count \in [Latches -> 0 .. UnlatchCycles - 1]
    <2> SUFFICES ASSUME NEW l \in Latches
                 PROVE  count[l] \in 0 .. UnlatchCycles - 1
      OBVIOUS
    <2>1. v.fault_unlatch_count[l] \in 0 .. UnlatchCycles - 1
      BY <1>2
    <2>2. CASE l \in v.fault_latched /\ ~Raw(in, l) /\ l \notin released
      <3>1. ~(v.fault_unlatch_count[l] + 1 >= UnlatchCycles)
        BY <2>2
      <3>2. count[l] = v.fault_unlatch_count[l] + 1
        BY <2>2
      <3> QED BY <2>1, <3>1, <3>2, Constants
    <2>3. CASE ~(l \in v.fault_latched /\ ~Raw(in, l) /\ l \notin released)
      <3>1. count[l] = v.fault_unlatch_count[l] \/ count[l] = 0
        BY <2>3
      <3> QED BY <2>1, <3>1, Constants
    <2> QED BY <2>2, <2>3
  <1>5. \A l \in v.fault_latched :
          \/ Raw(in, l) /\ l \in kept /\ count[l] = 0
          \/ ~Raw(in, l) /\ v.fault_unlatch_count[l] + 1 >= UnlatchCycles /\ l \notin kept
          \/ ~Raw(in, l) /\ l \in kept /\ count[l] = v.fault_unlatch_count[l] + 1
    BY <1>2
  <1> HIDE DEF kept, count, w
  <1>6. w \in VsmVariables /\ w.fault_latched = kept /\ w.fault_unlatch_count = count
    BY <1>1, <1>2, <1>3, <1>4 DEF VsmVariables
  <1> QED BY <1>1, <1>3, <1>5, <1>6 DEF LatchCounts, w

\* What step 5 makes of a stop.
StopCounts(v, w, in) ==
    /\ w.fault_latched \subseteq v.fault_latched
    /\ \/ /\ w.state = "SAFE_STOP"
          /\ \A l \in v.fault_latched : LatchCounts(v, w, in, l)
          /\ \/ w.safe_stop_clear_count = 0
             \/ /\ w.fault_latched = {} /\ AllClear(in)
                /\ w.safe_stop_clear_count = v.safe_stop_clear_count + 1
       \/ /\ w.state = "INIT" /\ w.init_hold_counter = 0
          /\ AllClear(in) /\ v.safe_stop_clear_count + 1 >= RecoveryCycles
          /\ \A l \in v.fault_latched : ~Raw(in, l) /\ v.fault_unlatch_count[l] + 1 >= UnlatchCycles

LEMMA RecoverKeeps ==
  ASSUME NEW p \in BOOLEAN, NEW v, VInv(v, p), CreepOk(v), NEW in
  PROVE  LET w == Recover(v, in)
         IN  /\ VInv(w, p) /\ CreepOk(w)
             /\ v.state # "SAFE_STOP" => w = v
             /\ v.state = "SAFE_STOP" => StopCounts(v, w, in)
  <1> DEFINE u == Unlatch(v, in)
             n == u.safe_stop_clear_count + 1
             dirty == [u EXCEPT !.safe_stop_clear_count = 0]
             clean == [u EXCEPT !.safe_stop_clear_count = n]
             e == EnterState(u, "INIT")
             left == [e EXCEPT !.safe_stop_clear_count = 0, !.init_hold_counter = 0,
                               !.self_test_pass_pending = TRUE]
             allowed == u.fault_latched = {} /\ AllClear(in)
             w == Recover(v, in)
  <1>1. v \in VsmVariables /\ v.safe_stop_clear_count \in 0 .. RecoveryCycles - 1
    BY Fields DEF VInv
  <1>2. \/ v.state # "SAFE_STOP" /\ w = v
        \/ v.state = "SAFE_STOP" /\ ~allowed /\ w = dirty
        \/ v.state = "SAFE_STOP" /\ allowed /\ n < RecoveryCycles /\ w = clean
        \/ v.state = "SAFE_STOP" /\ allowed /\ ~(n < RecoveryCycles) /\ w = left
    BY DEF Recover, RecoveryAllowed, LeaveSafeStop
  <1>3. /\ u = [v EXCEPT !.fault_latched = u.fault_latched,
                         !.fault_unlatch_count = u.fault_unlatch_count]
        /\ u \in VsmVariables
        /\ u.fault_latched \subseteq v.fault_latched
        /\ \A l \in v.fault_latched : LatchCounts(v, u, in, l)
    BY <1>1, UnlatchKeeps
  <1> HIDE DEF u, w
  <1>4. /\ u.state = v.state /\ u.mode = v.mode
        /\ u.safe_stop_clear_count = v.safe_stop_clear_count
        /\ u.creep_debounce_count = v.creep_debounce_count
    BY <1>1, <1>3 DEF VsmVariables
  <1>5. n \in 0 .. RecoveryCycles /\ 0 \in 0 .. RecoveryCycles - 1
    BY <1>1, <1>4, Constants
  <1>6. VInv(u, p)
    BY <1>3, <1>4 DEF VInv
  <1>7. CASE v.state # "SAFE_STOP" /\ w = v
    BY <1>7 DEF w
  <1>8. CASE v.state = "SAFE_STOP" /\ ~allowed /\ w = dirty
    <2>1. dirty \in VsmVariables
      BY <1>3, <1>5 DEF VsmVariables
    <2>2. /\ dirty.state = u.state /\ dirty.mode = u.mode /\ dirty.safe_stop_clear_count = 0
          /\ dirty.fault_latched = u.fault_latched
          /\ dirty.fault_unlatch_count = u.fault_unlatch_count
      BY <1>3 DEF VsmVariables
    <2> HIDE DEF dirty
    <2>3. VInv(dirty, p) /\ CreepOk(dirty)
      BY <1>4, <1>6, <1>8, <2>1, <2>2, StateNames DEF VInv, CreepOk
    <2>4. StopCounts(v, dirty, in)
      BY <1>3, <1>4, <1>8, <2>2 DEF StopCounts, LatchCounts
    <2> QED BY <1>8, <2>3, <2>4 DEF w
  <1>9. CASE v.state = "SAFE_STOP" /\ allowed /\ n < RecoveryCycles /\ w = clean
    <2>1. n \in 0 .. RecoveryCycles - 1
      BY <1>5, <1>9, Constants
    <2> HIDE DEF n
    <2>2. clean \in VsmVariables
      BY <1>3, <2>1 DEF VsmVariables
    <2>3. /\ clean.state = u.state /\ clean.mode = u.mode /\ clean.safe_stop_clear_count = n
          /\ clean.fault_latched = u.fault_latched
          /\ clean.fault_unlatch_count = u.fault_unlatch_count
      BY <1>3 DEF VsmVariables
    <2> HIDE DEF clean
    <2>4. VInv(clean, p) /\ CreepOk(clean)
      BY <1>4, <1>6, <1>9, <2>2, <2>3, StateNames DEF VInv, CreepOk
    <2>5. StopCounts(v, clean, in)
      BY <1>3, <1>4, <1>9, <2>3 DEF StopCounts, LatchCounts, n
    <2> QED BY <1>9, <2>4, <2>5 DEF w
  <1>10. CASE v.state = "SAFE_STOP" /\ allowed /\ ~(n < RecoveryCycles) /\ w = left
    <2>1. "INIT" \in States \ {"SHUTDOWN"}
      BY DEF States
    <2>2. /\ e = [u EXCEPT !.state = "INIT", !.mode = e.mode]
          /\ e \in VsmVariables /\ e.state = "INIT" /\ e.mode # "SHUTDOWN"
          /\ p => e.mode # "STARTUP"
      <3>1. u.mode # "SHUTDOWN" /\ (p => u.mode # "STARTUP")
        BY <1>6 DEF VInv
      <3> QED BY <1>3, <2>1, <3>1, EnterKeeps
    <2> HIDE DEF e
    <2>3. e.fault_latched = {}
      BY <1>3, <1>10, <2>2 DEF VsmVariables
    <2>4. left \in VsmVariables
      <3>1. 0 \in 0 .. InitHoldCycles
        BY Constants
      <3> QED BY <1>5, <2>2, <3>1 DEF VsmVariables
    <2>5. /\ left.state = "INIT" /\ left.mode = e.mode /\ left.safe_stop_clear_count = 0
          /\ left.init_hold_counter = 0 /\ left.fault_latched = {}
      BY <2>2, <2>3 DEF VsmVariables
    <2> HIDE DEF left
    <2>6. VInv(left, p) /\ CreepOk(left)
      BY <2>2, <2>4, <2>5, StateNames DEF VInv, CreepOk
    <2>7. \A l \in v.fault_latched : ~Raw(in, l) /\ v.fault_unlatch_count[l] + 1 >= UnlatchCycles
      BY <1>3, <1>10 DEF LatchCounts
    <2>8. v.safe_stop_clear_count + 1 >= RecoveryCycles
      BY <1>4, <1>5, <1>10, Constants
    <2>9. StopCounts(v, left, in)
      BY <1>10, <2>5, <2>7, <2>8 DEF StopCounts
    <2> QED BY <1>10, <2>6, <2>9 DEF w
  <1> QED BY <1>2, <1>7, <1>8, <1>9, <1>10

\* What a pass that ends in a driving state has met: u is the record after the
\* hold, w the one at the end.
Drives(u, w, in, buf) ==
    /\ u.state \in DrivingStates
    /\ ~in.estop_active /\ ~(in.fzc_timeout /\ in.rzc_timeout)
    /\ in.sc_killed => u.post_init_grace_counter > 0
    /\ in.motor_cutoff /\ w.state = "RUN" => u.state = "RUN"
    /\ u.post_init_grace_counter > 0 =>
         /\ w.post_init_grace_counter = u.post_init_grace_counter - 1
         /\ w.fault_confirm_count = u.fault_confirm_count
    /\ u.post_init_grace_counter = 0 =>
         /\ w.post_init_grace_counter = 0
         /\ BrakeCounted(u, w, in, buf) /\ MotorCounted(u, w, in, buf)

LEMMA PassKeeps ==
  ASSUME NEW p \in BOOLEAN, NEW v, VInv(v, p), CreepOk(v), NEW in, Inputs(in), NEW buf, Buffers(buf)
  PROVE  LET u == InitHold(v, in)
             c == ConfirmFaults(DeriveEvents(u, in), in, buf)
             w == AfterMainFunction(v, in, buf)
         IN  /\ VInv(w, p) /\ CreepOk(w) /\ VInv(c, p) /\ Raises(u, c)
             /\ c.state # "SAFE_STOP" => w = c
             /\ c.state = "SAFE_STOP" => StopCounts(c, w, in)
             /\ w.state \in DrivingStates => Drives(u, w, in, buf)
  <1> DEFINE u == InitHold(v, in)
             d == DeriveEvents(u, in)
             c == ConfirmFaults(d, in, buf)
             w == Recover(c, in)
  <1>1. AfterMainFunction(v, in, buf) = w
    BY DEF AfterMainFunction
  <1>2. VInv(u, p) /\ CreepOk(u)
    BY InitHoldKeeps
  <1> HIDE DEF u
  <1>3. /\ Derived(u, d, p)
        /\ in.estop_active => d.state \notin DrivingStates
        /\ in.fzc_timeout /\ in.rzc_timeout => d.state \notin DrivingStates
        /\ in.sc_killed /\ u.post_init_grace_counter = 0 => d.state \notin DrivingStates
        /\ in.motor_cutoff /\ d.state = "RUN" => u.state = "RUN"
    BY <1>2, DeriveEventsKeep
  <1> HIDE DEF d
  <1>4. VInv(d, p) /\ CreepOk(d) /\ Raises(u, d) /\ CountersKept(u, d)
    BY <1>3 DEF Derived
  <1>5. /\ Confirms(d, c, p)
        /\ d.post_init_grace_counter > 0 =>
             /\ c.post_init_grace_counter = d.post_init_grace_counter - 1
             /\ c.state = d.state /\ c.fault_confirm_count = d.fault_confirm_count
        /\ d.post_init_grace_counter = 0 =>
             /\ c.post_init_grace_counter = 0
             /\ BrakeCounted(d, c, in, buf) /\ MotorCounted(d, c, in, buf)
    BY <1>4, ConfirmFaultsKeep
  <1> HIDE DEF c
  <1>6. VInv(c, p) /\ CreepOk(c) /\ Raises(d, c)
    BY <1>5 DEF Confirms
  <1>7. Raises(u, c)
    <2>1. u.state \in States /\ d.state \in States
      BY <1>2, <1>4, Fields DEF VInv
    <2> QED BY <1>4, <1>6, <2>1, RaisesTransitive
  <1>8. /\ VInv(w, p) /\ CreepOk(w)
        /\ c.state # "SAFE_STOP" => w = c
        /\ c.state = "SAFE_STOP" => StopCounts(c, w, in)
    BY <1>6, RecoverKeeps
  <1> HIDE DEF w
  <1>9. ASSUME w.state \in DrivingStates
        PROVE  Drives(u, w, in, buf)
    <2>1. c.state # "SAFE_STOP" /\ w = c
      BY <1>8, <1>9, StateNames DEF StopCounts
    <2>2. c.state \in DrivingStates /\ d.state \in DrivingStates /\ u.state \in DrivingStates
      BY <1>3, <1>5, <1>9, <2>1, NotDrivingStays, StaysStopped
    <2>3. u.post_init_grace_counter \in 0 .. PostInitGraceCycles
      BY <1>2, Fields DEF VInv
    <2>4. /\ d.post_init_grace_counter = u.post_init_grace_counter
          /\ d.fault_confirm_count = u.fault_confirm_count
      BY <1>4 DEF CountersKept
    <2>5. ~in.estop_active /\ ~(in.fzc_timeout /\ in.rzc_timeout)
      BY <1>3, <2>2
    <2>6. in.sc_killed => u.post_init_grace_counter > 0
      BY <1>3, <2>2, <2>3, Constants
    <2>7. in.motor_cutoff /\ c.state = "RUN" => u.state = "RUN"
      BY <1>3, <1>5 DEF Confirms
    <2>8. u.post_init_grace_counter = 0 =>
            BrakeCounted(u, c, in, buf) /\ MotorCounted(u, c, in, buf)
      BY <1>3, <1>5, <2>4 DEF BrakeCounted, MotorCounted
    <2> QED BY <1>5, <2>1, <2>2, <2>4, <2>5, <2>6, <2>7, <2>8 DEF Drives
  <1> QED BY <1>1, <1>6, <1>7, <1>8, <1>9 DEF u, d, c, w

-----------------------------------------------------------------------------
(* The inductive invariant: what the observers count is at least what the    *)
(* code counts, or at most, whichever the property needs.                    *)

\* A fault has been driven with no longer than the grace that is used up and
\* the confirmation that is under way; a motor fault outside RUN one whole
\* confirmation more.
DrivenCounted ==
    /\ drove_with \in [DOMAIN DriveLimit -> Nat]
    /\ vsm.state \notin DrivingStates => \A f \in DOMAIN DriveLimit : drove_with[f] = 0
    /\ drove_with["ESTOP"] = 0 /\ drove_with["CAN_DUAL"] = 0
    /\ LET used == PostInitGraceCycles - vsm.post_init_grace_counter IN
       vsm.state \in DrivingStates =>
         /\ drove_with["SC_KILL"] <= used
         /\ drove_with["BRAKE"] <= used + vsm.fault_confirm_count["BRAKE"]
         /\ drove_with["MOTOR"] <= used + vsm.fault_confirm_count["MOTOR_CUTOFF"]
                                   + IF vsm.state = "RUN" THEN 0 ELSE ConfirmThreshold

HoldCounted == vsm.state = "INIT" => vsm.init_hold_counter <= in_init

\* The latch of the current stop has counted no more than its signal has been
\* gone, and the recovery no more than everything has been quiet.
StopCounted ==
    vsm.state = "SAFE_STOP" =>
      /\ vsm.fault_latched = {} \/ vsm.fault_latched = stop.latched
      /\ \A l \in vsm.fault_latched : vsm.fault_unlatch_count[l] <= stop.cause_clear
      /\ vsm.fault_latched = {} => stop.gone \/ stop.latched = {}
      /\ vsm.safe_stop_clear_count <= stop.quiet

IInv ==
    /\ TypeOK
    /\ pc = "selftest" => vsm = Swc_VehicleState_Init /\ ~self_test_ok /\ stop = NotStopped
    /\ VInv(vsm, self_test_ok) /\ CreepOk(vsm)
    /\ DrivenCounted /\ HoldCounted /\ StopCounted

LEMMA DriveLimits ==
  /\ DOMAIN DriveLimit = {"ESTOP", "CAN_DUAL", "SC_KILL", "BRAKE", "MOTOR"}
  /\ DriveLimit["ESTOP"] = 0 /\ DriveLimit["CAN_DUAL"] = 0
  /\ DriveLimit["SC_KILL"] = PostInitGraceCycles
  /\ DriveLimit["BRAKE"] = PostInitGraceCycles + ConfirmThreshold - 1
  /\ DriveLimit["MOTOR"] = PostInitGraceCycles + 2 * ConfirmThreshold - 1
  BY DEF DriveLimit

LEMMA CountToRange ==
  ASSUME NEW limit \in Nat, NEW n \in Nat
  PROVE  /\ CountTo(limit, n) \in 0 .. limit /\ CountTo(limit, n) <= n + 1
         /\ \A k \in Nat : k <= limit /\ k <= n + 1 => k <= CountTo(limit, n)
  BY DEF CountTo

\* The signals a pass reads are of the right kinds.
LEMMA PassReads ==
  ASSUME TypeOK
  PROVE  Inputs(Signals(rte.bridged, rte.swc)) /\ Buffers(com)
  <1> DEFINE in == Signals(rte.bridged, rte.swc)
  <1>1. rte.bridged \in BridgedSignals /\ rte.swc \in SwcSignals /\ com \in BridgedSignals
    BY DEF TypeOK
  <1>2. DOMAIN NormalBridged = {"motor_cutoff", "motor_fault_rzc", "brake_fault", "steering_fault",
                                "sc_killed", "battery"}
    BY DEF NormalBridged
  <1>3. DOMAIN NormalSwc = {"estop_active", "pedal_fault", "fzc_timeout", "rzc_timeout", "torque"}
    BY DEF NormalSwc
  <1>4. /\ in.motor_cutoff = rte.bridged.motor_cutoff
        /\ in.motor_fault_rzc = rte.bridged.motor_fault_rzc
        /\ in.brake_fault = rte.bridged.brake_fault
        /\ in.steering_fault = rte.bridged.steering_fault
        /\ in.sc_killed = rte.bridged.sc_killed /\ in.battery = rte.bridged.battery
    BY <1>2 DEF Signals
  <1>5. /\ in.estop_active = rte.swc.estop_active /\ in.pedal_fault = rte.swc.pedal_fault
        /\ in.fzc_timeout = rte.swc.fzc_timeout /\ in.rzc_timeout = rte.swc.rzc_timeout
        /\ in.torque = rte.swc.torque
    BY <1>2, <1>3 DEF Signals
  <1>6. Inputs(in)
    BY <1>1, <1>4, <1>5 DEF Inputs, BridgedSignals, SwcSignals
  <1>7. Buffers(com)
    BY <1>1 DEF Buffers, BridgedSignals
  <1> QED BY <1>6, <1>7

LEMMA Initially == Init => IInv
  <1> SUFFICES ASSUME Init PROVE IInv
    OBVIOUS
  <1>1. vsm = Swc_VehicleState_Init
    BY DEF Init
  <1>2. Swc_VehicleState_Init \in VsmVariables
    <2>1. /\ 0 \in 0 .. InitHoldCycles /\ 0 \in 0 .. RecoveryCycles - 1
          /\ 0 \in 0 .. PostInitGraceCycles /\ 0 \in 0 .. CreepDebounceTicks
          /\ 0 \in 0 .. ConfirmThreshold - 1 /\ 0 \in 0 .. UnlatchCycles - 1
      BY Constants
    <2>2. NoFaultCounted \in [DOMAIN NoFaultCounted -> 0 .. ConfirmThreshold - 1]
      BY <2>1 DEF NoFaultCounted
    <2>3. "INIT" \in States /\ "STARTUP" \in BswM_ModeType
      BY DEF States, BswM_ModeType
    <2> QED BY <2>1, <2>2, <2>3 DEF Swc_VehicleState_Init, VsmVariables
  <1>3. /\ vsm.state = "INIT" /\ vsm.mode = "STARTUP" /\ vsm.fault_latched = {}
        /\ vsm.safe_stop_clear_count = 0 /\ vsm.init_hold_counter = 0
    BY <1>1 DEF Swc_VehicleState_Init
  <1>4. VInv(vsm, self_test_ok) /\ CreepOk(vsm)
    BY <1>1, <1>2, <1>3, StateNames DEF Init, VInv, CreepOk
  <1>5. rte \in [bridged : BridgedSignals, swc : SwcSignals] /\ com \in BridgedSignals
    BY DEF Init, BridgedSignals, SwcSignals, NormalBridged, NormalSwc
  <1>6. stop \in [latched : SUBSET Latches, cause_clear : 0 .. UnlatchCycles,
                  gone : BOOLEAN, quiet : 0 .. RecoveryCycles]
    BY Constants DEF Init, NotStopped, StopEntered
  <1>7. in_init \in 0 .. InitHoldCycles /\ in_init = 0
    BY Constants DEF Init
  <1>8. /\ drove_with \in [DOMAIN DriveLimit -> Nat]
        /\ \A f \in DOMAIN DriveLimit : drove_with[f] = 0
    BY DEF Init
  <1>9. TypeOK
    BY <1>1, <1>2, <1>5, <1>6, <1>7, <1>8 DEF Init, TypeOK
  <1>10. DrivenCounted
    BY <1>3, <1>8, DriveLimits, StateNames DEF DrivenCounted
  <1>11. HoldCounted /\ StopCounted
    BY <1>3, <1>7 DEF HoldCounted, StopCounted
  <1> QED BY <1>1, <1>4, <1>9, <1>10, <1>11 DEF Init, IInv

LEMMA SelfTestKeeps ==
  ASSUME IInv, NEW passed \in BOOLEAN, SelfTest(passed)
  PROVE  /\ IInv'
         /\ vsm.state = "INIT" /\ vsm'.state \notin DrivingStates
  <1>1. vsm = Swc_VehicleState_Init /\ pc = "selftest" /\ pc' = "rte"
    BY DEF SelfTest, IInv
  <1>2. /\ vsm.state = "INIT" /\ vsm.mode = "STARTUP" /\ vsm.fault_latched = {}
        /\ vsm.safe_stop_clear_count = 0 /\ vsm.init_hold_counter = 0 /\ vsm \in VsmVariables
    BY <1>1 DEF Swc_VehicleState_Init, IInv, VInv
  <1>3. CASE passed
    <2> DEFINE u == [vsm EXCEPT !.self_test_pass_pending = TRUE]
    <2>1. vsm' = [u EXCEPT !.mode = BswM_RequestMode(u.mode, "RUN")]
      BY <1>2, <1>3 DEF SelfTest, OnEvent
    <2>2. u \in VsmVariables /\ u.mode = "STARTUP" /\ u.state = "INIT"
          /\ u.fault_latched = {} /\ u.safe_stop_clear_count = 0 /\ u.init_hold_counter = 0
      BY <1>2 DEF VsmVariables
    <2>3. BswM_RequestMode(u.mode, "RUN") = "RUN" /\ "RUN" \in BswM_ModeType
      BY <2>2 DEF BswM_RequestMode, bswm_is_transition_valid, Rank, BswM_ModeType
    <2> HIDE DEF u
    <2>4. /\ vsm' \in VsmVariables /\ vsm'.mode = "RUN" /\ vsm'.state = "INIT"
          /\ vsm'.fault_latched = {} /\ vsm'.safe_stop_clear_count = 0
          /\ vsm'.init_hold_counter = 0
      BY <2>1, <2>2, <2>3 DEF VsmVariables
    <2>5. VInv(vsm, self_test_ok)' /\ CreepOk(vsm)'
      BY <2>4, StateNames DEF VInv, CreepOk
    <2>6. TypeOK' /\ DrivenCounted' /\ HoldCounted' /\ StopCounted'
      BY <1>1, <1>2, <1>3, <2>4, StateNames
         DEF SelfTest, IInv, TypeOK, DrivenCounted, HoldCounted, StopCounted
    <2> QED BY <1>1, <1>2, <2>4, <2>5, <2>6, StateNames DEF IInv
  <1>4. CASE ~passed
    <2>1. /\ "SELF_TEST_FAIL" \in DOMAIN transition_table["INIT"]
          /\ transition_table["INIT"]["SELF_TEST_FAIL"] = "SAFE_STOP"
          /\ "SELF_TEST_FAIL" \notin LatchedEvents
      BY DEF transition_table, LatchedEvents
    <2>2. vsm' = EnterState(vsm, "SAFE_STOP")
      BY <1>2, <1>4, <2>1 DEF SelfTest, OnEvent
    <2>3. vsm' = [vsm EXCEPT !.state = "SAFE_STOP",
                             !.mode = BswM_RequestMode(vsm.mode, "SAFE_STOP")]
      BY <2>2 DEF EnterState, state_to_bswm_mode
    <2>4. BswM_RequestMode(vsm.mode, "SAFE_STOP") = "STARTUP" /\ "STARTUP" \in BswM_ModeType
      BY <1>2 DEF BswM_RequestMode, bswm_is_transition_valid, Rank, BswM_ModeType
    <2>5. /\ vsm' \in VsmVariables /\ vsm'.mode = "STARTUP" /\ vsm'.state = "SAFE_STOP"
          /\ vsm'.fault_latched = {} /\ vsm'.safe_stop_clear_count = 0
      BY <1>2, <2>3, <2>4, StateNames DEF VsmVariables
    <2>6. self_test_ok' = FALSE
      BY <1>4 DEF SelfTest
    <2>7. VInv(vsm, self_test_ok)' /\ CreepOk(vsm)'
      BY <2>5, <2>6, StateNames DEF VInv, CreepOk
    <2>8. TypeOK' /\ DrivenCounted'
      BY <1>1, <1>2, <2>5, <2>6, StateNames DEF SelfTest, IInv, TypeOK, DrivenCounted
    <2>9. HoldCounted'
      BY <2>5 DEF HoldCounted
    <2>10. StopCounted'
      <3>1. stop' = NotStopped
        BY <1>1 DEF SelfTest, IInv
      <3> QED BY <2>5, <3>1 DEF StopCounted, NotStopped, StopEntered
    <2> QED BY <1>1, <1>2, <2>5, <2>7, <2>8, <2>9, <2>10, StateNames DEF IInv
  <1> QED BY <1>3, <1>4

\* Signals change, the state machine does not.
LEMMA SignalsKeep ==
  ASSUME IInv, UNCHANGED <<vsm, observers>>, pc # "selftest", pc' # "selftest", TypeOK'
  PROVE  IInv'
  BY DEF IInv, VInv, CreepOk, DrivenCounted, HoldCounted, StopCounted, observers

LEMMA ComReceiveKeeps ==
  ASSUME IInv, NEW signal \in DOMAIN NormalBridged, ComReceive(signal)
  PROVE  IInv'
  <1>1. DOMAIN NormalBridged = {"motor_cutoff", "motor_fault_rzc", "brake_fault", "steering_fault",
                                "sc_killed", "battery"}
    BY DEF NormalBridged
  <1>2. com \in BridgedSignals
    BY DEF IInv, TypeOK
  <1>3. com' \in BridgedSignals
    <2>1. PICK value \in IF signal = "battery" THEN {"NORMAL", "WARN", "CRIT"} ELSE BOOLEAN :
            com' = [com EXCEPT ![signal] = value]
      BY DEF ComReceive
    <2> QED BY <1>1, <1>2, <2>1 DEF BridgedSignals
  <1> QED BY <1>3, SignalsKeep DEF ComReceive, IInv, TypeOK, observers

LEMMA SwcWriteKeeps ==
  ASSUME IInv, NEW signal \in DOMAIN NormalSwc, SwcWrite(signal)
  PROVE  IInv'
  <1>1. DOMAIN NormalSwc = {"estop_active", "pedal_fault", "fzc_timeout", "rzc_timeout", "torque"}
    BY DEF NormalSwc
  <1>2. rte \in [bridged : BridgedSignals, swc : SwcSignals]
    BY DEF IInv, TypeOK
  <1>3. PICK value \in BOOLEAN \cup {"none", "unintended", "pedal"} :
          /\ rte' = [rte EXCEPT !.swc[signal] = value]
          /\ signal = "torque" => value \in {"none", "unintended", "pedal"}
          /\ signal # "torque" => value \in BOOLEAN
    <2>1. PICK value \in CASE signal = "torque" -> {"none", "unintended", "pedal"}
                           [] signal = "estop_active" -> {TRUE}
                           [] OTHER -> BOOLEAN :
            rte' = [rte EXCEPT !.swc[signal] = value]
      BY DEF SwcWrite
    <2> QED BY <2>1
  <1>4. [rte.swc EXCEPT ![signal] = value] \in SwcSignals
    BY <1>1, <1>2, <1>3 DEF SwcSignals
  <1>5. rte' \in [bridged : BridgedSignals, swc : SwcSignals]
    BY <1>2, <1>3, <1>4
  <1> QED BY <1>5, SignalsKeep DEF SwcWrite, IInv, TypeOK, observers

LEMMA BridgeKeeps ==
  ASSUME IInv, Swc_CvcCom_BridgeRxToRte
  PROVE  IInv'
  BY SignalsKeep DEF Swc_CvcCom_BridgeRxToRte, IInv, TypeOK, observers

LEMMA MetCases ==
  ASSUME NEW in, NEW buf
  PROVE  /\ Met("ESTOP", in, buf) = in.estop_active
         /\ Met("CAN_DUAL", in, buf) = (in.fzc_timeout /\ in.rzc_timeout)
         /\ Met("SC_KILL", in, buf) = in.sc_killed
         /\ Met("BRAKE", in, buf) = (in.brake_fault /\ buf.brake_fault)
         /\ Met("MOTOR", in, buf) = (in.motor_cutoff /\ buf.motor_cutoff)
  BY DEF Met

\* What DrivenCounted says of a driving state, for any record.
DrivenWith(drove, v) ==
    LET used == PostInitGraceCycles - v.post_init_grace_counter IN
    /\ drove["SC_KILL"] <= used
    /\ drove["BRAKE"] <= used + v.fault_confirm_count["BRAKE"]
    /\ drove["MOTOR"] <= used + v.fault_confirm_count["MOTOR_CUTOFF"]
                          + IF v.state = "RUN" THEN 0 ELSE ConfirmThreshold

\* The ranges of the counters that the driving time is compared with.
LEMMA CountRanges ==
  ASSUME NEW p, NEW v, VInv(v, p)
  PROVE  /\ v.post_init_grace_counter \in 0 .. PostInitGraceCycles
         /\ v.fault_confirm_count["BRAKE"] \in 0 .. ConfirmThreshold - 1
         /\ v.fault_confirm_count["MOTOR_CUTOFF"] \in 0 .. ConfirmThreshold - 1
  <1>1. {"BRAKE", "MOTOR_CUTOFF"} \subseteq DOMAIN NoFaultCounted
    BY DEF NoFaultCounted
  <1> QED BY <1>1, Fields DEF VInv

\* One pass that ends driving: each fault that was met had its grace or its
\* confirmation move on with it.
LEMMA PassDrives ==
  ASSUME NEW p, NEW u, NEW w, VInv(u, p), VInv(w, p), NEW in, Inputs(in), NEW buf, Buffers(buf),
         w.state \in DrivingStates, Drives(u, w, in, buf),
         NEW drove \in [DOMAIN DriveLimit -> Nat], DrivenWith(drove, u),
         drove["ESTOP"] = 0, drove["CAN_DUAL"] = 0,
         NEW after \in [DOMAIN DriveLimit -> Nat],
         \A f \in DOMAIN DriveLimit :
           after[f] = IF Met(f, in, buf) THEN CountTo(DriveLimit[f] + 1, drove[f]) ELSE 0
  PROVE  DrivenWith(after, w) /\ after["ESTOP"] = 0 /\ after["CAN_DUAL"] = 0
  <1> DEFINE gu == u.post_init_grace_counter
             gw == w.post_init_grace_counter
             bu == u.fault_confirm_count["BRAKE"]
             bw == w.fault_confirm_count["BRAKE"]
             mu == u.fault_confirm_count["MOTOR_CUTOFF"]
             mw == w.fault_confirm_count["MOTOR_CUTOFF"]
             xu == IF u.state = "RUN" THEN 0 ELSE ConfirmThreshold
             xw == IF w.state = "RUN" THEN 0 ELSE ConfirmThreshold
  <1>1. /\ gu \in 0 .. PostInitGraceCycles /\ gw \in 0 .. PostInitGraceCycles
        /\ bu \in 0 .. ConfirmThreshold - 1 /\ bw \in 0 .. ConfirmThreshold - 1
        /\ mu \in 0 .. ConfirmThreshold - 1 /\ mw \in 0 .. ConfirmThreshold - 1
    BY CountRanges
  <1>2. xu \in {0, ConfirmThreshold} /\ xw \in {0, ConfirmThreshold}
    OBVIOUS
  <1>3. \A f \in DOMAIN DriveLimit :
          /\ drove[f] \in Nat /\ after[f] \in Nat
          /\ after[f] <= IF Met(f, in, buf) THEN drove[f] + 1 ELSE 0
    <2> SUFFICES ASSUME NEW f \in DOMAIN DriveLimit
                 PROVE  /\ drove[f] \in Nat /\ after[f] \in Nat
                        /\ after[f] <= IF Met(f, in, buf) THEN drove[f] + 1 ELSE 0
      OBVIOUS
    <2>1. DriveLimit[f] + 1 \in Nat
      BY DriveLimits, Constants
    <2>2. drove[f] \in Nat /\ after[f] \in Nat
      OBVIOUS
    <2>3. CountTo(DriveLimit[f] + 1, drove[f]) <= drove[f] + 1
      BY <2>1, <2>2, CountToRange
    <2> QED BY <2>2, <2>3
  <1>4. {"ESTOP", "CAN_DUAL", "SC_KILL", "BRAKE", "MOTOR"} \subseteq DOMAIN DriveLimit
    BY DriveLimits
  <1>5. after["ESTOP"] = 0 /\ after["CAN_DUAL"] = 0
    <2>1. ~Met("ESTOP", in, buf) /\ ~Met("CAN_DUAL", in, buf)
      BY MetCases DEF Drives
    <2> QED BY <1>4, <2>1
  <1>6. gw = IF gu > 0 THEN gu - 1 ELSE 0
    BY <1>1, Constants DEF Drives
  <1>7. after["SC_KILL"] <= PostInitGraceCycles - gw
    <2>1. CASE in.sc_killed
      <3>1. gu > 0 /\ drove["SC_KILL"] <= PostInitGraceCycles - gu
        BY <2>1 DEF Drives, DrivenWith
      <3>2. after["SC_KILL"] <= drove["SC_KILL"] + 1
        BY <1>3, <1>4, <2>1, MetCases
      <3> QED BY <1>1, <1>3, <1>4, <1>6, <3>1, <3>2, Constants
    <2>2. CASE ~in.sc_killed
      <3>1. after["SC_KILL"] <= 0
        BY <1>3, <1>4, <2>2, MetCases
      <3> QED BY <1>1, <1>3, <1>4, <3>1, Constants
    <2> QED BY <2>1, <2>2
  <1>8. after["BRAKE"] <= PostInitGraceCycles - gw + bw
    <2>1. CASE in.brake_fault /\ buf.brake_fault
      <3>1. drove["BRAKE"] <= PostInitGraceCycles - gu + bu
        BY DEF DrivenWith
      <3>2. after["BRAKE"] <= drove["BRAKE"] + 1
        BY <1>3, <1>4, <2>1, MetCases
      <3>3. CASE gu > 0
        <4>1. bw = bu
          BY <3>3 DEF Drives
        <4> QED BY <1>1, <1>3, <1>4, <1>6, <3>1, <3>2, <3>3, <4>1, Constants
      <3>4. CASE gu = 0
        <4>1. bw = bu + 1
          BY <2>1, <3>4 DEF Drives, BrakeCounted
        <4> QED BY <1>1, <1>3, <1>4, <1>6, <3>1, <3>2, <3>4, <4>1, Constants
      <3> QED BY <1>1, <3>3, <3>4
    <2>2. CASE ~(in.brake_fault /\ buf.brake_fault)
      <3>1. after["BRAKE"] <= 0
        BY <1>3, <1>4, <2>2, MetCases
      <3> QED BY <1>1, <1>3, <1>4, <3>1, Constants
    <2> QED BY <2>1, <2>2
  <1>9. after["MOTOR"] <= PostInitGraceCycles - gw + mw + xw
    <2>1. CASE in.motor_cutoff /\ buf.motor_cutoff
      <3>1. drove["MOTOR"] <= PostInitGraceCycles - gu + mu + xu
        BY DEF DrivenWith
      <3>2. after["MOTOR"] <= drove["MOTOR"] + 1
        BY <1>3, <1>4, <2>1, MetCases
      <3>3. xw >= xu
        <4>1. w.state = "RUN" => u.state = "RUN"
          BY <2>1 DEF Drives
        <4> QED BY <4>1, Constants
      <3>4. CASE gu > 0
        <4>1. mw = mu
          BY <3>4 DEF Drives
        <4> HIDE DEF xu, xw
        <4> QED BY <1>1, <1>2, <1>3, <1>4, <1>6, <3>1, <3>2, <3>3, <3>4, <4>1, Constants
      <3>5. CASE gu = 0
        <4>1. \/ mu + 1 < ConfirmThreshold /\ mw = mu + 1
              \/ u.state = "RUN" /\ w.state # "RUN" /\ mw = 0
          BY <2>1, <3>5 DEF Drives, MotorCounted
        <4>2. CASE mw = mu + 1
          <5> HIDE DEF xu, xw
          <5> QED BY <1>1, <1>2, <1>3, <1>4, <1>6, <3>1, <3>2, <3>3, <3>5, <4>2, Constants
        <4>3. CASE u.state = "RUN" /\ w.state # "RUN" /\ mw = 0
          <5>1. xu = 0 /\ xw = ConfirmThreshold
            BY <4>3
          <5> HIDE DEF xu, xw
          <5> QED BY <1>1, <1>3, <1>4, <1>6, <3>1, <3>2, <3>5, <4>3, <5>1, Constants
        <4> QED BY <4>1, <4>2, <4>3
      <3> QED BY <1>1, <3>4, <3>5
    <2>2. CASE ~(in.motor_cutoff /\ buf.motor_cutoff)
      <3>1. after["MOTOR"] <= 0
        BY <1>3, <1>4, <2>2, MetCases
      <3> HIDE DEF xw
      <3> QED BY <1>1, <1>2, <1>3, <1>4, <3>1, Constants
    <2> QED BY <2>1, <2>2
  <1> QED BY <1>5, <1>7, <1>8, <1>9 DEF DrivenWith

\* All signals clear includes the one behind any latch.
LEMMA ClearNotRaw ==
  ASSUME NEW in, AllClear(in), NEW l \in Latches
  PROVE  ~Raw(in, l)
  BY DEF AllClear

\* What StopCounted says of a stop, for any record and observer.
StopWith(v, s) ==
    /\ v.fault_latched = {} \/ v.fault_latched = s.latched
    /\ \A l \in v.fault_latched : v.fault_unlatch_count[l] <= s.cause_clear
    /\ v.fault_latched = {} => s.gone \/ s.latched = {}
    /\ v.safe_stop_clear_count <= s.quiet

Stops == [latched : SUBSET Latches, cause_clear : 0 .. UnlatchCycles,
          gone : BOOLEAN, quiet : 0 .. RecoveryCycles]

StopStep(s, in) ==
    LET clear == IF \A l \in s.latched : ~Raw(in, l)
                 THEN CountTo(UnlatchCycles, s.cause_clear) ELSE 0
        gone  == s.gone \/ s.latched = {} \/ clear >= UnlatchCycles
    IN  [latched |-> s.latched, cause_clear |-> clear, gone |-> gone,
         quiet |-> IF gone /\ AllClear(in) THEN CountTo(RecoveryCycles, s.quiet) ELSE 0]

LEMMA StopStepType ==
  ASSUME NEW s \in Stops, NEW in
  PROVE  StopStep(s, in) \in Stops
  <1>1. /\ CountTo(UnlatchCycles, s.cause_clear) \in 0 .. UnlatchCycles
        /\ CountTo(RecoveryCycles, s.quiet) \in 0 .. RecoveryCycles
        /\ 0 \in 0 .. UnlatchCycles /\ 0 \in 0 .. RecoveryCycles
    BY CountToRange, Constants DEF Stops
  <1> QED BY <1>1 DEF StopStep, Stops

\* Step 5 counts no faster than the observer.
LEMMA StopFollows ==
  ASSUME NEW p, NEW c, VInv(c, p), c.state = "SAFE_STOP", NEW w, NEW in, VInv(w, p),
         StopCounts(c, w, in), NEW s \in Stops, StopWith(c, s)
  PROVE  LET t == StopStep(s, in)
         IN  /\ w.state = "SAFE_STOP" => StopWith(w, t)
             /\ w.state # "SAFE_STOP" => w.state = "INIT" /\ t.gone /\ t.quiet >= RecoveryCycles
  <1> DEFINE t == StopStep(s, in)
             clear == IF \A l \in s.latched : ~Raw(in, l)
                      THEN CountTo(UnlatchCycles, s.cause_clear) ELSE 0
             gone == s.gone \/ s.latched = {} \/ clear >= UnlatchCycles
             quiet == IF gone /\ AllClear(in) THEN CountTo(RecoveryCycles, s.quiet) ELSE 0
  <1>1. t = [latched |-> s.latched, cause_clear |-> clear, gone |-> gone, quiet |-> quiet]
    BY DEF StopStep
  <1>2. /\ s.latched \subseteq Latches /\ s.cause_clear \in 0 .. UnlatchCycles
        /\ s.gone \in BOOLEAN /\ s.quiet \in 0 .. RecoveryCycles
        /\ c.safe_stop_clear_count \in 0 .. RecoveryCycles - 1
        /\ w.safe_stop_clear_count \in 0 .. RecoveryCycles - 1
        /\ c.fault_latched \subseteq Latches
        /\ c.fault_unlatch_count \in [Latches -> 0 .. UnlatchCycles - 1]
        /\ w.fault_unlatch_count \in [Latches -> 0 .. UnlatchCycles - 1]
    BY Fields DEF VInv, Stops
  <1>3. \A k \in Nat : /\ k <= UnlatchCycles /\ k <= s.cause_clear + 1
                            => k <= CountTo(UnlatchCycles, s.cause_clear)
                       /\ k <= RecoveryCycles /\ k <= s.quiet + 1
                            => k <= CountTo(RecoveryCycles, s.quiet)
    <2>1. UnlatchCycles \in Nat /\ RecoveryCycles \in Nat
      BY Constants
    <2>2. s.cause_clear \in Nat /\ s.quiet \in Nat
      BY <1>2, <2>1
    <2>3. \A k \in Nat : k <= UnlatchCycles /\ k <= s.cause_clear + 1
                            => k <= CountTo(UnlatchCycles, s.cause_clear)
      BY <2>1, <2>2, CountToRange
    <2>4. \A k \in Nat : k <= RecoveryCycles /\ k <= s.quiet + 1
                            => k <= CountTo(RecoveryCycles, s.quiet)
      BY <2>1, <2>2, CountToRange
    <2> QED BY <2>3, <2>4
  <1>0. clear \in 0 .. UnlatchCycles /\ quiet \in 0 .. RecoveryCycles
    <2>1. UnlatchCycles \in Nat /\ RecoveryCycles \in Nat
      BY Constants
    <2>2. s.cause_clear \in Nat /\ s.quiet \in Nat
      BY <1>2, <2>1
    <2>3. /\ CountTo(UnlatchCycles, s.cause_clear) \in 0 .. UnlatchCycles
          /\ CountTo(RecoveryCycles, s.quiet) \in 0 .. RecoveryCycles
      BY <2>1, <2>2, CountToRange
    <2>4. clear \in {0, CountTo(UnlatchCycles, s.cause_clear)}
          /\ quiet \in {0, CountTo(RecoveryCycles, s.quiet)}
      BY DEF clear, quiet
    <2> HIDE DEF clear, quiet
    <2> QED BY <2>1, <2>3, <2>4
  <1>4. \A l \in c.fault_latched : l \in Latches /\ c.fault_latched = {l} /\ s.latched = {l}
    BY DEF VInv, StopWith
  <1>5. \A l \in c.fault_latched : ~Raw(in, l) => clear = CountTo(UnlatchCycles, s.cause_clear)
    BY <1>4
  <1>6. ASSUME \A l \in c.fault_latched :
                 ~Raw(in, l) /\ c.fault_unlatch_count[l] + 1 >= UnlatchCycles
        PROVE  gone
    <2>1. CASE c.fault_latched = {}
      BY <2>1 DEF StopWith
    <2>2. CASE c.fault_latched # {}
      <3>1. PICK l \in c.fault_latched : ~Raw(in, l) /\ c.fault_unlatch_count[l] + 1 >= UnlatchCycles
        BY <1>6, <2>2
      <3>2. c.fault_unlatch_count[l] <= s.cause_clear
        BY DEF StopWith
      <3>3. l \in Latches /\ c.fault_unlatch_count[l] \in 0 .. UnlatchCycles - 1
        BY <1>2
      <3>4. UnlatchCycles <= s.cause_clear + 1
        BY <1>2, <3>1, <3>2, <3>3, Constants
      <3>5. clear >= UnlatchCycles
        <4>1. UnlatchCycles <= CountTo(UnlatchCycles, s.cause_clear)
          BY <1>3, <3>4, Constants
        <4>2. clear = CountTo(UnlatchCycles, s.cause_clear)
          BY <1>5, <3>1
        <4> HIDE DEF clear
        <4> QED BY <1>2, <4>1, <4>2, CountToRange, Constants
      <3> QED BY <3>5
    <2> QED BY <2>1, <2>2
  <1> HIDE DEF clear, gone, t
  <1>7. ASSUME gone, AllClear(in)
        PROVE  quiet = CountTo(RecoveryCycles, s.quiet)
    BY <1>7
  <1>8. CASE w.state = "SAFE_STOP"
    <2>1. /\ w.fault_latched \subseteq c.fault_latched
          /\ \A l \in c.fault_latched : LatchCounts(c, w, in, l)
          /\ \/ w.safe_stop_clear_count = 0
             \/ /\ w.fault_latched = {} /\ AllClear(in)
                /\ w.safe_stop_clear_count = c.safe_stop_clear_count + 1
      BY <1>8 DEF StopCounts
    <2>2. w.fault_latched = {} \/ w.fault_latched = s.latched
      BY <1>4, <2>1
    <2>3. ASSUME NEW l \in w.fault_latched
          PROVE  w.fault_unlatch_count[l] <= clear
      <3>1. l \in c.fault_latched /\ l \in Latches
        BY <1>2, <2>1
      <3>2. CASE Raw(in, l)
        <4>1. w.fault_unlatch_count[l] = 0
          BY <2>1, <3>1, <3>2 DEF LatchCounts
        <4> QED BY <1>0, <4>1, Constants
      <3>3. CASE ~Raw(in, l)
        <4>1. w.fault_unlatch_count[l] = c.fault_unlatch_count[l] + 1
          BY <2>1, <2>3, <3>1, <3>3 DEF LatchCounts
        <4>2. /\ c.fault_unlatch_count[l] \in 0 .. UnlatchCycles - 1
              /\ c.fault_unlatch_count[l] <= s.cause_clear
          BY <1>2, <3>1 DEF StopWith
        <4>3. c.fault_unlatch_count[l] + 1 <= CountTo(UnlatchCycles, s.cause_clear)
          BY <1>2, <1>3, <4>2, Constants
        <4> QED BY <1>5, <3>1, <3>3, <4>1, <4>3
      <3> QED BY <3>2, <3>3
    <2>4. w.fault_latched = {} => gone
      <3> SUFFICES ASSUME w.fault_latched = {} PROVE gone
        OBVIOUS
      <3>1. \A l \in c.fault_latched :
              ~Raw(in, l) /\ c.fault_unlatch_count[l] + 1 >= UnlatchCycles
        BY <2>1 DEF LatchCounts
      <3> QED BY <1>6, <3>1
    <2>5. w.safe_stop_clear_count <= quiet
      <3>1. CASE w.safe_stop_clear_count = 0
        <4> HIDE DEF quiet
        <4> QED BY <1>0, <3>1, Constants
      <3>2. CASE w.fault_latched = {} /\ AllClear(in)
                   /\ w.safe_stop_clear_count = c.safe_stop_clear_count + 1
        <4>1. quiet = CountTo(RecoveryCycles, s.quiet)
          BY <1>7, <2>4, <3>2
        <4>2. c.safe_stop_clear_count <= s.quiet
          BY DEF StopWith
        <4>3. w.safe_stop_clear_count <= CountTo(RecoveryCycles, s.quiet)
          BY <1>2, <1>3, <3>2, <4>2, Constants
        <4> QED BY <4>1, <4>3
      <3> QED BY <2>1, <3>1, <3>2
    <2> HIDE DEF quiet
    <2>6. StopWith(w, t)
      BY <1>1, <2>2, <2>3, <2>4, <2>5 DEF StopWith
    <2> QED BY <1>8, <2>6 DEF t
  <1>9. CASE w.state # "SAFE_STOP"
    <2>1. /\ w.state = "INIT" /\ AllClear(in) /\ c.safe_stop_clear_count + 1 >= RecoveryCycles
          /\ \A l \in c.fault_latched : ~Raw(in, l) /\ c.fault_unlatch_count[l] + 1 >= UnlatchCycles
      BY <1>9 DEF StopCounts
    <2>2. gone
      BY <1>6, <2>1
    <2>3. quiet >= RecoveryCycles
      <3>1. c.safe_stop_clear_count <= s.quiet
        BY DEF StopWith
      <3>2. RecoveryCycles <= s.quiet + 1
        BY <1>2, <2>1, <3>1, Constants
      <3>3. RecoveryCycles <= CountTo(RecoveryCycles, s.quiet)
        BY <1>3, <3>2, Constants
      <3>4. quiet = CountTo(RecoveryCycles, s.quiet)
        BY <1>7, <2>1, <2>2
      <3> HIDE DEF quiet
      <3> QED BY <1>2, <3>3, <3>4, CountToRange, Constants
    <2> HIDE DEF quiet
    <2> QED BY <1>1, <2>1, <2>2, <2>3 DEF t
  <1> QED BY <1>8, <1>9

\* The pass that enters a stop: the observer starts with the latch it left.
LEMMA StopStarts ==
  ASSUME NEW p, NEW c, VInv(c, p), c.state = "SAFE_STOP", c.safe_stop_clear_count = 0,
         \A l \in c.fault_latched : c.fault_unlatch_count[l] = 0,
         NEW w, NEW in, VInv(w, p), w.state = "SAFE_STOP", StopCounts(c, w, in)
  PROVE  StopWith(w, StopStep(StopEntered(w.fault_latched), in))
  <1> DEFINE s == StopEntered(w.fault_latched)
  <1>1. s = [latched |-> w.fault_latched, cause_clear |-> 0, gone |-> FALSE, quiet |-> 0]
    BY DEF StopEntered
  <1> HIDE DEF s
  <1>2. /\ w.fault_latched \subseteq c.fault_latched /\ c.fault_latched \subseteq Latches
        /\ w.safe_stop_clear_count \in 0 .. RecoveryCycles - 1
    BY Fields DEF VInv, StopCounts
  <1>3. s \in Stops
    BY <1>1, <1>2, Constants DEF Stops
  <1>4. CASE w.fault_latched = c.fault_latched
    <2>1. StopWith(c, s)
      BY <1>1, <1>4 DEF StopWith
    <2> QED BY <1>3, <2>1, StopFollows DEF s
  <1>5. CASE w.fault_latched # c.fault_latched
    <2>1. w.fault_latched = {}
      BY <1>2, <1>5 DEF VInv
    <2>2. \/ w.safe_stop_clear_count = 0
          \/ AllClear(in) /\ w.safe_stop_clear_count = 1
      BY StateNames DEF StopCounts
    <2> DEFINE quiet == IF AllClear(in) THEN CountTo(RecoveryCycles, 0) ELSE 0
    <2>3. /\ StopStep(s, in).latched = {} /\ StopStep(s, in).gone = TRUE
          /\ StopStep(s, in).quiet = quiet
      BY <1>1, <2>1 DEF StopStep
    <2>4. CountTo(RecoveryCycles, 0) >= 1
      BY Constants DEF CountTo
    <2>5. w.safe_stop_clear_count <= quiet
      <3>1. CountTo(RecoveryCycles, 0) \in Nat
        BY Constants DEF CountTo
      <3>2. CASE w.safe_stop_clear_count = 0
        BY <3>1, <3>2
      <3>3. CASE AllClear(in) /\ w.safe_stop_clear_count = 1
        <4>1. quiet = CountTo(RecoveryCycles, 0)
          BY <3>3
        <4> QED BY <2>4, <3>3, <4>1
      <3> QED BY <2>2, <3>2, <3>3
    <2> HIDE DEF quiet
    <2> QED BY <2>1, <2>3, <2>5 DEF StopWith, s
  <1> QED BY <1>4, <1>5

LEMMA MainFunctionKeeps ==
  ASSUME IInv, Swc_VehicleState_MainFunction
  PROVE  /\ IInv'
         /\ vsm.state = "INIT" /\ vsm'.state # "INIT" => in_init + 1 >= InitHoldCycles
         /\ vsm.state = "SAFE_STOP" /\ vsm'.state # "SAFE_STOP" =>
              vsm'.state = "INIT" /\ stop'.gone /\ stop'.quiet >= RecoveryCycles
  <1> DEFINE in == Signals(rte.bridged, rte.swc)
             u == InitHold(vsm, in)
             c == ConfirmFaults(DeriveEvents(u, in), in, com)
             before == IF vsm.state = "SAFE_STOP" THEN stop ELSE StopEntered(vsm'.fault_latched)
  <1>1. /\ vsm' = AfterMainFunction(vsm, in, com) /\ Observe(in, com)
        /\ pc' = "bridge" /\ UNCHANGED <<rte, com, received>>
    BY DEF Swc_VehicleState_MainFunction
  <1>2. /\ TypeOK /\ VInv(vsm, self_test_ok) /\ CreepOk(vsm)
        /\ DrivenCounted /\ HoldCounted /\ StopCounted
        /\ self_test_ok \in BOOLEAN
    BY DEF IInv, TypeOK
  <1>3. Inputs(in) /\ Buffers(com)
    BY <1>2, PassReads
  <1> HIDE DEF in
  <1>4. /\ VInv(vsm', self_test_ok) /\ CreepOk(vsm') /\ VInv(c, self_test_ok) /\ Raises(u, c)
        /\ c.state # "SAFE_STOP" => vsm' = c
        /\ c.state = "SAFE_STOP" => StopCounts(c, vsm', in)
        /\ vsm'.state \in DrivingStates => Drives(u, vsm', in, com)
    BY <1>1, <1>2, <1>3, PassKeeps
  <1>5. /\ VInv(u, self_test_ok) /\ CreepOk(u)
        /\ vsm.state # "INIT" => u = vsm
        /\ vsm.state = "INIT" =>
             \/ /\ u.state = "INIT"
                /\ u.init_hold_counter = vsm.init_hold_counter
                     \/ u.init_hold_counter = vsm.init_hold_counter + 1
             \/ /\ u.state = "RUN" /\ vsm.init_hold_counter + 1 >= InitHoldCycles
                /\ u.post_init_grace_counter = PostInitGraceCycles
                /\ u.fault_confirm_count = NoFaultCounted
    BY <1>2, InitHoldKeeps
  <1> HIDE DEF u, c
  <1>6. /\ vsm.state \in States /\ u.state \in States /\ c.state \in States /\ vsm'.state \in States
        /\ {vsm.state, u.state, c.state, vsm'.state} \subseteq States \ {"SHUTDOWN"}
        /\ vsm.init_hold_counter \in 0 .. InitHoldCycles
        /\ vsm'.init_hold_counter \in 0 .. InitHoldCycles
    BY <1>2, <1>4, <1>5, Fields DEF VInv
  <1>7. vsm.state = "INIT" /\ vsm'.state # "INIT" => in_init + 1 >= InitHoldCycles
    <2> SUFFICES ASSUME vsm.state = "INIT", vsm'.state # "INIT"
                 PROVE  in_init + 1 >= InitHoldCycles
      OBVIOUS
    <2>1. u.state # "INIT"
      BY <1>4, StateNames DEF Raises
    <2>2. vsm.init_hold_counter + 1 >= InitHoldCycles
      BY <1>5, <2>1
    <2>3. vsm.init_hold_counter <= in_init /\ in_init \in 0 .. InitHoldCycles
      BY <1>2 DEF HoldCounted, TypeOK
    <2> QED BY <1>6, <2>2, <2>3, Constants
  <1>8. in_init' \in 0 .. InitHoldCycles /\ HoldCounted'
    <2>1. in_init' = IF vsm.state = "INIT" /\ vsm'.state = "INIT"
                     THEN CountTo(InitHoldCycles, in_init) ELSE 0
      BY <1>1 DEF Observe
    <2>2. in_init \in 0 .. InitHoldCycles /\ in_init \in Nat /\ InitHoldCycles \in Nat
      BY <1>2, Constants DEF TypeOK
    <2>3. in_init' \in 0 .. InitHoldCycles
      BY <2>1, <2>2, CountToRange
    <2>4. ASSUME vsm'.state = "INIT"
          PROVE  vsm'.init_hold_counter <= in_init'
      <3>1. CASE c.state = "SAFE_STOP"
        <4>1. vsm'.init_hold_counter = 0
          BY <1>4, <2>4, <3>1 DEF StopCounts
        <4> QED BY <2>2, <2>3, <4>1
      <3>2. CASE c.state # "SAFE_STOP"
        <4>1. vsm' = c /\ u.state = "INIT" /\ vsm.state = "INIT"
          BY <1>4, <1>5, <1>6, <2>4, <3>2, StateNames DEF Raises
        <4>2. vsm'.init_hold_counter = u.init_hold_counter
          BY <1>4, <4>1 DEF Raises
        <4>3. u.init_hold_counter <= vsm.init_hold_counter + 1
          BY <1>5, <1>6, <4>1, StateNames
        <4>4. vsm'.init_hold_counter <= in_init + 1
          BY <1>2, <1>6, <2>2, <4>1, <4>2, <4>3, Constants DEF HoldCounted
        <4>5. vsm'.init_hold_counter \in Nat /\ vsm'.init_hold_counter <= InitHoldCycles
          BY <1>6, <2>2
        <4>6. in_init' = CountTo(InitHoldCycles, in_init)
          BY <2>1, <2>4, <4>1
        <4> QED BY <2>2, <4>4, <4>5, <4>6, CountToRange
      <3> QED BY <3>1, <3>2
    <2> QED BY <2>3, <2>4 DEF HoldCounted
  <1>9. DrivenCounted'
    <2>1. drove_with' = [f \in DOMAIN DriveLimit |->
                           IF vsm'.state \in DrivingStates /\ Met(f, in, com)
                           THEN CountTo(DriveLimit[f] + 1, drove_with[f]) ELSE 0]
      BY <1>1 DEF Observe
    <2>2. drove_with \in [DOMAIN DriveLimit -> Nat]
      BY <1>2 DEF DrivenCounted
    <2>3. \A f \in DOMAIN DriveLimit : DriveLimit[f] + 1 \in Nat
      BY DriveLimits, Constants
    <2>4. drove_with' \in [DOMAIN DriveLimit -> Nat]
      <3>1. \A f \in DOMAIN DriveLimit : CountTo(DriveLimit[f] + 1, drove_with[f]) \in Nat
        BY <2>2, <2>3, CountToRange
      <3> QED BY <2>1, <3>1
    <2>5. CASE vsm'.state \notin DrivingStates
      <3>1. \A f \in DOMAIN DriveLimit : drove_with'[f] = 0
        BY <2>1, <2>5
      <3> QED BY <2>4, <2>5, <3>1, DriveLimits DEF DrivenCounted
    <2>6. CASE vsm'.state \in DrivingStates
      <3>1. Drives(u, vsm', in, com)
        BY <1>4, <2>6
      <3>2. /\ DrivenWith(drove_with, u)
            /\ drove_with["ESTOP"] = 0 /\ drove_with["CAN_DUAL"] = 0
        <4>1. u.state \in DrivingStates
          BY <3>1 DEF Drives
        <4>2. CASE vsm.state \in DrivingStates
          <5>1. u = vsm
            BY <1>5, <4>2, StateNames
          <5> QED BY <1>2, <4>2, <5>1 DEF DrivenCounted, DrivenWith
        <4>3. CASE vsm.state \notin DrivingStates
          <5>1. vsm.state = "INIT" /\ u.state = "RUN"
            BY <1>5, <1>6, <4>1, <4>3, StateNames
          <5>2. /\ u.post_init_grace_counter = PostInitGraceCycles
                /\ u.fault_confirm_count = NoFaultCounted
            BY <1>5, <5>1
          <5>3. /\ NoFaultCounted["BRAKE"] = 0 /\ NoFaultCounted["MOTOR_CUTOFF"] = 0
            BY DEF NoFaultCounted
          <5>4. \A f \in DOMAIN DriveLimit : drove_with[f] = 0
            BY <1>2, <4>3 DEF DrivenCounted
          <5> QED BY <5>1, <5>2, <5>3, <5>4, DriveLimits, Constants DEF DrivenWith
        <4> QED BY <4>2, <4>3
      <3>3. \A f \in DOMAIN DriveLimit :
              drove_with'[f] = IF Met(f, in, com)
                               THEN CountTo(DriveLimit[f] + 1, drove_with[f]) ELSE 0
        BY <2>1, <2>6
      <3>4. /\ DrivenWith(drove_with', vsm')
            /\ drove_with'["ESTOP"] = 0 /\ drove_with'["CAN_DUAL"] = 0
        BY <1>3, <1>4, <1>5, <2>2, <2>4, <2>6, <3>1, <3>2, <3>3, PassDrives
      <3> QED BY <2>4, <2>6, <3>4 DEF DrivenCounted, DrivenWith
    <2> QED BY <2>5, <2>6
  <1>10. /\ stop' \in Stops /\ StopCounted'
         /\ vsm.state = "SAFE_STOP" /\ vsm'.state # "SAFE_STOP" =>
              vsm'.state = "INIT" /\ stop'.gone /\ stop'.quiet >= RecoveryCycles
    <2>1. stop' = IF "SAFE_STOP" \in {vsm.state, vsm'.state}
                  THEN StopStep(before, in) ELSE NotStopped
      BY <1>1 DEF Observe, StopAfter, StopStep
    <2>2. stop \in Stops
      BY <1>2 DEF TypeOK, Stops
    <2>3. NotStopped \in Stops
      BY Constants DEF NotStopped, StopEntered, Stops
    <2>4. before \in Stops
      <3>1. vsm'.fault_latched \in SUBSET Latches
        BY <1>4, Fields DEF VInv
      <3>2. StopEntered(vsm'.fault_latched) \in Stops
        BY <2>3, <3>1 DEF NotStopped, StopEntered, Stops
      <3> QED BY <2>2, <3>2
    <2>5. stop' \in Stops
      BY <2>1, <2>3, <2>4, StopStepType
    <2>6. CASE vsm.state = "SAFE_STOP"
      <3>1. u = vsm /\ before = stop /\ stop' = StopStep(stop, in)
        BY <1>5, <2>1, <2>6
      <3>2. c.state = "SAFE_STOP" /\ StopCounts(c, vsm', in)
        BY <1>4, <2>6, <3>1, StateNames DEF Raises
      <3>3. StopWith(c, stop)
        BY <1>2, <1>4, <2>6, <3>1, StateNames DEF Raises, StopCounted, StopWith
      <3>4. /\ vsm'.state = "SAFE_STOP" => StopWith(vsm', stop')
            /\ vsm'.state # "SAFE_STOP" =>
                 vsm'.state = "INIT" /\ stop'.gone /\ stop'.quiet >= RecoveryCycles
        BY <1>4, <2>2, <3>1, <3>2, <3>3, StopFollows
      <3> QED BY <2>5, <2>6, <3>4 DEF StopCounted, StopWith
    <2>7. CASE vsm.state # "SAFE_STOP"
      <3>1. ASSUME vsm'.state = "SAFE_STOP"
            PROVE  StopWith(vsm', stop')
        <4>1. c.state = "SAFE_STOP" /\ StopCounts(c, vsm', in)
          BY <1>4, <3>1
        <4>2. u.state # "SAFE_STOP"
          BY <1>5, <2>7, StateNames
        <4>3. u.state \in DrivingStates
          BY <1>4, <4>1, <4>2 DEF Raises
        <4>4. /\ c.safe_stop_clear_count = 0
              /\ \A l \in c.fault_latched : c.fault_unlatch_count[l] = 0
          BY <1>4, <1>5, <4>1, <4>2, <4>3 DEF Raises, VInv
        <4>5. stop' = StopStep(StopEntered(vsm'.fault_latched), in)
          BY <2>1, <2>7, <3>1
        <4> QED BY <1>4, <3>1, <4>1, <4>4, <4>5, StopStarts
      <3> QED BY <2>5, <2>7, <3>1 DEF StopCounted, StopWith
    <2> QED BY <2>6, <2>7
  <1>11. TypeOK'
    <2>1. vsm' \in VsmVariables
      BY <1>4 DEF VInv
    <2>2. drove_with' \in [DOMAIN DriveLimit -> Nat]
      BY <1>9 DEF DrivenCounted
    <2>3. self_test_ok' = self_test_ok
      BY <1>1 DEF Observe
    <2> QED BY <1>1, <1>2, <1>8, <1>10, <2>1, <2>2, <2>3 DEF TypeOK, Stops
  <1>12. self_test_ok' = self_test_ok
    BY <1>1 DEF Observe
  <1> QED BY <1>1, <1>4, <1>7, <1>8, <1>9, <1>10, <1>11, <1>12 DEF IInv

LEMMA StutterKeeps ==
  ASSUME IInv, UNCHANGED vars
  PROVE  IInv'
  BY DEF IInv, TypeOK, VInv, CreepOk, DrivenCounted, HoldCounted, StopCounted, vars, observers

LEMMA NextKeeps ==
  ASSUME IInv, Next
  PROVE  IInv'
  BY SelfTestKeeps, ComReceiveKeeps, SwcWriteKeeps, MainFunctionKeeps, BridgeKeeps DEF Next

-----------------------------------------------------------------------------
(* Theorems *)

\* The inductive invariant holds in every state the program reaches.
THEOREM Invariance == Spec => []IInv
  <1>1. IInv /\ [Next]_vars => IInv'
    BY NextKeeps, StutterKeeps
  <1> QED BY Initially, <1>1, PTL DEF Spec

\* Types of the state, for every value of the thresholds: no counter of
\* Swc_VehicleState passes its limit.
THEOREM TypesHold == Spec => []TypeOK
  <1>1. IInv => TypeOK
    BY DEF IInv
  <1> QED BY <1>1, Invariance, PTL

\* No critical fault is driven with beyond its grace and its confirmations,
\* whatever the signals do and however the confirmations interleave.
THEOREM StopsInTime == Spec => []FaultsStopInTime
  <1>1. IInv => FaultsStopInTime
    <2> SUFFICES ASSUME IInv, NEW f \in DOMAIN DriveLimit
                 PROVE  drove_with[f] <= DriveLimit[f]
      BY DEF FaultsStopInTime
    <2>1. DrivenCounted /\ VInv(vsm, self_test_ok)
      BY DEF IInv
    <2>2. DriveLimit[f] \in Nat /\ drove_with[f] \in Nat
      BY <2>1, DriveLimits, Constants DEF DrivenCounted
    <2>3. CASE vsm.state \notin DrivingStates
      BY <2>1, <2>2, <2>3 DEF DrivenCounted
    <2>4. CASE vsm.state \in DrivingStates
      <3>1. /\ vsm.post_init_grace_counter \in 0 .. PostInitGraceCycles
            /\ vsm.fault_confirm_count["BRAKE"] \in 0 .. ConfirmThreshold - 1
            /\ vsm.fault_confirm_count["MOTOR_CUTOFF"] \in 0 .. ConfirmThreshold - 1
        BY <2>1, CountRanges
      <3> DEFINE used == PostInitGraceCycles - vsm.post_init_grace_counter
                 twice == IF vsm.state = "RUN" THEN 0 ELSE ConfirmThreshold
      <3>2. /\ drove_with["ESTOP"] = 0 /\ drove_with["CAN_DUAL"] = 0
            /\ drove_with["SC_KILL"] <= used
            /\ drove_with["BRAKE"] <= used + vsm.fault_confirm_count["BRAKE"]
            /\ drove_with["MOTOR"] <= used + vsm.fault_confirm_count["MOTOR_CUTOFF"] + twice
        BY <2>1, <2>4 DEF DrivenCounted
      <3>3. used \in 0 .. PostInitGraceCycles /\ twice \in 0 .. ConfirmThreshold
        BY <3>1, Constants
      <3>4. \A g \in DOMAIN DriveLimit : drove_with[g] \in Nat
        BY <2>1 DEF DrivenCounted
      <3> HIDE DEF used, twice
      <3>5. CASE f \in {"ESTOP", "CAN_DUAL"}
        BY <3>2, <3>5, DriveLimits
      <3>6. CASE f = "SC_KILL"
        BY <2>2, <3>2, <3>3, <3>6, DriveLimits, Constants
      <3>7. CASE f = "BRAKE"
        BY <2>2, <3>1, <3>2, <3>3, <3>7, DriveLimits, Constants
      <3>8. CASE f = "MOTOR"
        BY <2>2, <3>1, <3>2, <3>3, <3>8, DriveLimits, Constants
      <3> QED BY <3>5, <3>6, <3>7, <3>8, DriveLimits
    <2> QED BY <2>3, <2>4
  <1> QED BY <1>1, Invariance, PTL

\* At most one latch is set, and none outside SAFE_STOP.
THEOREM OneLatch == Spec => []OneLatchPerStop
  <1>1. IInv => OneLatchPerStop
    <2> SUFFICES ASSUME IInv PROVE OneLatchPerStop
      OBVIOUS
    <2>1. /\ vsm.fault_latched # {} =>
               vsm.state = "SAFE_STOP" /\ \E l \in Latches : vsm.fault_latched = {l}
      BY DEF IInv, VInv
    <2>2. Cardinality(vsm.fault_latched) <= 1
      <3>1. CASE vsm.fault_latched = {}
        BY <3>1, FS_EmptySet
      <3>2. CASE vsm.fault_latched # {}
        <4>1. PICK l \in Latches : vsm.fault_latched = {l}
          BY <2>1, <3>2
        <4>2. Cardinality({l}) = 1
          BY FS_Singleton
        <4> QED BY <4>1, <4>2
      <3> QED BY <3>1, <3>2
    <2> QED BY <2>1, <2>2 DEF OneLatchPerStop
  <1> QED BY <1>1, Invariance, PTL

\* BswM is in SAFE_STOP with the state machine, unless the self-test failed.
THEOREM StopsReachBswM == Spec => []BswMHearsOfStops
  <1>1. IInv => BswMHearsOfStops
    BY DEF IInv, VInv, BswMHearsOfStops
  <1> QED BY <1>1, Invariance, PTL

\* A stop is left only for INIT, its cause gone for the unlatch time and all
\* faults then for the recovery time, whatever those times are.
THEOREM RecoveryWaits == Spec => RecoveryNeedsQuiet
  <1> DEFINE Waits == vsm.state = "SAFE_STOP" /\ vsm'.state # "SAFE_STOP" =>
                        vsm'.state = "INIT" /\ stop'.gone /\ stop'.quiet >= RecoveryCycles
  <1>1. IInv /\ [Next]_vars => [Waits]_vars
    <2> SUFFICES ASSUME IInv, Next PROVE Waits
      BY DEF vars
    <2>1. CASE Swc_VehicleState_MainFunction
      BY <2>1, MainFunctionKeeps
    <2>2. ASSUME NEW passed \in BOOLEAN, SelfTest(passed) PROVE Waits
      BY <2>2, SelfTestKeeps
    <2>3. CASE vsm' = vsm
      BY <2>3
    <2> QED BY <2>1, <2>2, <2>3
            DEF Next, ComReceive, SwcWrite, Swc_CvcCom_BridgeRxToRte
  <1> QED BY <1>1, Invariance, PTL DEF Spec, RecoveryNeedsQuiet

\* INIT is left in the main loop only after the whole hold time, at power-up
\* and at every recovery.
THEOREM HoldIsFull == Spec => FullInitHold
  <1> DEFINE Holds == pc = "rte" /\ vsm.state = "INIT" /\ vsm'.state # "INIT" =>
                        in_init + 1 >= InitHoldCycles
  <1>1. IInv /\ [Next]_vars => [Holds]_vars
    <2> SUFFICES ASSUME IInv, Next PROVE Holds
      BY DEF vars
    <2>1. CASE Swc_VehicleState_MainFunction
      BY <2>1, MainFunctionKeeps
    <2>2. ASSUME NEW passed \in BOOLEAN, SelfTest(passed) PROVE Holds
      BY <2>2 DEF SelfTest
    <2>3. CASE vsm' = vsm
      BY <2>3
    <2> QED BY <2>1, <2>2, <2>3
            DEF Next, ComReceive, SwcWrite, Swc_CvcCom_BridgeRxToRte
  <1> QED BY <1>1, Invariance, PTL DEF Spec, FullInitHold
=============================================================================
