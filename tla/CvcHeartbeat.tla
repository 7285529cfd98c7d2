---------------------------- MODULE CvcHeartbeat ----------------------------
(***************************************************************************)
(* How the Central Vehicle Computer supervises one zone controller         *)
(* (firmware/cvc/src/Swc_Heartbeat.c).  Com unpacks a heartbeat into a     *)
(* signal and replaces it by zero when frames stop for the receive         *)
(* deadline; every 50 ms the supervision polls the signal, takes a changed *)
(* value for a heartbeat, and feeds the E2E state machine with it.         *)
(*                                                                         *)
(* The signal is a whole byte, alive counter and data ID, so that a frame  *)
(* never carries zero.  Frames are the environment's choice; whether they  *)
(* are those of a healthy or of a silent controller is for the observers.  *)
(* The two zone controllers are supervised alike and independently; the    *)
(* thresholds are those of one of them.                                    *)
(***************************************************************************)
EXTENDS E2ESm, ComRx

CONSTANTS
    Configs,     \* the thresholds of the supervised controllers
    PollCycles,  \* HB_TX_CYCLES
    Deadline,    \* Com receive deadline, in cycles
    AliveMod,    \* numbers of the alive counter
    MaxGap       \* cycles between two heartbeats of a healthy controller

ASSUME CvcHeartbeatAssumption ==
    /\ Configs \subseteq SmConfigs
    /\ PollCycles \in Nat \ {0}
    /\ Deadline \in Nat \ {0}
    /\ AliveMod \in Nat \ {0, 1}
    /\ MaxGap \in Nat
    /\ MaxGap >= PollCycles

VARIABLES
    pc,           \* "receive" or "monitor"
    config,       \* thresholds of the supervised controller
    alive,        \* Com buffer of its alive signal
    tx_timer,     \* tx_timer
    last_alive,   \* fzc_last_alive, rzc_last_alive
    sm,           \* fzc_sm_state, rzc_sm_state
    comm_status,  \* fzc_comm_status, rzc_comm_status
    last_frame,   \* observer: alive number of the last frame
    silent,       \* observer: cycles since the last frame
    healthy       \* observer: polls for which frames came as they should

observers == <<last_frame, silent, healthy>>
vars == <<pc, config, alive, tx_timer, last_alive, sm, comm_status, observers>>

\* Alive bytes of frames; zero is what Com replaces them by.
AliveBytes == 1 .. AliveMod

NextByte(byte) == IF byte = AliveMod THEN 1 ELSE byte + 1

\* The samples of a silence that may be good: that of the last frame, and that
\* of the zero that Com replaces it by, which is taken for a frame.
GoodInSilence == 2

\* The polls after which a silence has filled the window, down to the last
\* frame if the thresholds bear two good samples in it.
WindowPolls ==
    IF config.WindowSize - GoodInSilence > config.MaxErrorStateValid
    THEN config.WindowSize ELSE config.WindowSize + 1

\* The cycles by which a silent controller is found, less one: a window of
\* polls, or one poll more than the receive deadline, whose zero may be the
\* very sample that makes the controller valid.
FoundWithin ==
    LET whole_window == WindowPolls * PollCycles - 1
        after_zero == Deadline + 2 * PollCycles - 2
    IN  IF whole_window >= after_zero THEN whole_window ELSE after_zero

Init ==
    /\ pc = "receive"
    /\ config \in Configs
    /\ alive = Com_Init(0)
    /\ tx_timer = 0
    /\ last_alive = 0
    /\ sm = E2E_Sm_Init(config)
    /\ comm_status = "TIMEOUT"
    /\ last_frame = AliveMod
    /\ silent = FoundWithin
    /\ healthy = 0

\* A heartbeat that is out of its time or out of its sequence, or overdue.
Irregular(frame) ==
    IF frame = 0 THEN silent + 1 >= MaxGap
    ELSE silent + 1 \notin PollCycles .. MaxGap \/ frame # NextByte(last_frame)

\* Can_MainFunction_Read and Com_MainFunction_Rx; frame 0 is none.
Receive ==
    /\ pc = "receive"
    /\ \E frame \in {0} \cup AliveBytes :
          /\ alive' = Com_MainFunction_Rx(
                         IF frame = 0 THEN alive ELSE Com_RxIndication(alive, frame), Deadline, 0)
          /\ last_frame' = IF frame = 0 THEN last_frame ELSE frame
          /\ silent' = IF frame # 0 THEN 0
                       ELSE IF silent < FoundWithin THEN silent + 1 ELSE silent
          /\ healthy' = IF Irregular(frame) THEN 0 ELSE healthy
    /\ pc' = "monitor"
    /\ UNCHANGED <<config, tx_timer, last_alive, sm, comm_status>>

\* Mutant of Swc_Heartbeat_MainFunction's poll: the last alive number is not kept.
PollForgets ==
    LET sample == IF alive.value # last_alive THEN "OK" ELSE "ERROR"
    IN  /\ sm' = E2E_Sm_Check(config, sm, sample)
        /\ comm_status' = IF sm'.Status = "VALID" THEN "OK" ELSE "TIMEOUT"
        /\ healthy' = IF healthy <= config.WindowSize THEN healthy + 1 ELSE healthy
        /\ UNCHANGED last_alive

\* Parts 2 to 4 of Swc_Heartbeat_MainFunction.
Poll ==
    LET sample == IF alive.value # last_alive THEN "OK" ELSE "ERROR"
    IN  /\ last_alive' = alive.value
        /\ sm' = E2E_Sm_Check(config, sm, sample)
        /\ comm_status' = IF sm'.Status = "VALID" THEN "OK" ELSE "TIMEOUT"
        /\ healthy' = IF healthy <= config.WindowSize THEN healthy + 1 ELSE healthy

\* Swc_Heartbeat_MainFunction.
Monitor ==
    /\ pc = "monitor"
    /\ IF tx_timer + 1 >= PollCycles
       THEN tx_timer' = 0 /\ Poll
       ELSE tx_timer' = tx_timer + 1 /\ UNCHANGED <<last_alive, sm, comm_status, healthy>>
    /\ pc' = "receive"
    /\ UNCHANGED <<config, alive, last_frame, silent>>

Next == Receive \/ Monitor

Spec == Init /\ [][Next]_vars

-----------------------------------------------------------------------------

\* Types of the state: no counter passes the window.
TypeOK ==
    /\ pc \in {"receive", "monitor"}
    /\ config \in Configs
    /\ alive \in [value : 0 .. AliveMod, age : 0 .. Deadline]
    /\ tx_timer \in 0 .. PollCycles - 1
    /\ last_alive \in 0 .. AliveMod
    /\ sm \in SmVariables(config)
    /\ comm_status \in {"OK", "TIMEOUT"}
    /\ last_frame \in AliveBytes
    /\ silent \in 0 .. FoundWithin
    /\ healthy \in 0 .. config.WindowSize + 1

Window == INSTANCE SlidingWindow WITH window <- ByAge(config, sm), status <- sm.Status

\* The circular buffer and its counters, through eviction, a partly filled
\* window and wrap-around, implement the status over the last samples.
ImplementsWindow == Window!Spec

\* The thresholds catch a silent controller: one good sample does not keep it
\* valid, and the two that a silence may have do not bring it back.
SilenceFits ==
    \A c \in Configs :
        /\ c.WindowSize - 1 > c.MaxErrorStateValid
        /\ c.MinOkStateInvalid > GoodInSilence
        /\ c.MinOkStateInit > 0

\* The thresholds let a healthy controller pass: its heartbeats are closer than
\* Com's deadline, and the fewest of them that can come in a window of polls
\* are enough for each state.
HealthFits ==
    /\ MaxGap < Deadline
    /\ \A c \in Configs : \A oks \in 0 .. c.WindowSize :
          c.WindowSize * PollCycles < (oks + 1) * MaxGap =>
              /\ oks >= c.MinOkStateInit
              /\ oks >= c.MinOkStateInvalid
              /\ c.WindowSize - oks <= c.MaxErrorStateValid

\* A controller that fell silent is reported as timed out within
\* that time, and not taken for alive again.
SilentIsFound == pc = "receive" /\ silent >= FoundWithin => comm_status = "TIMEOUT"

\* A controller whose heartbeats came in sequence and at most a cycle late
\* for more than a whole window is reported as alive, whatever was before: it
\* is neither timed out falsely nor kept out after a time-out.  The poll more
\* is for a restarted controller whose first alive number is the last one seen.
HealthyIsAlive == pc = "receive" /\ healthy > config.WindowSize => comm_status = "OK"
=============================================================================
