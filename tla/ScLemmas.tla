------------------------------- MODULE ScLemmas -------------------------------
(***************************************************************************)
(* Facts about the E2E check and the heartbeat supervision of one mailbox  *)
(* and one ECU, used by the proofs of both specifications that contain     *)
(* them.                                                                   *)
(***************************************************************************)
EXTENDS ScE2E, ScHeartbeat, TLAPS

-----------------------------------------------------------------------------
(* The E2E check *)

\* The alive counter stays within its width.
LEMMA NextAliveType == ASSUME NEW a \in Alive PROVE NextAlive(a) \in Alive
  BY E2eAssumption DEF NextAlive, Alive

LEMMA E2eInitType == SC_E2E_Init \in E2eState
  BY E2eAssumption DEF SC_E2E_Init, E2eState, Alive

\* SC_E2E_Check keeps its state within its type, whatever frame it is given.
LEMMA E2eCheckType ==
  ASSUME NEW s \in E2eState, NEW f, f.alive \in Alive
  PROVE  SC_E2E_Check(s, f) \in E2eState
  <1> DEFINE failures == IF s.fail_count < MaxConsecFail THEN s.fail_count + 1 ELSE MaxConsecFail
  <1>1. CASE SC_E2E_Valid(s, f)
    <2>1. 0 \in 0 .. MaxConsecFail
      BY E2eAssumption
    <2>2. ASSUME NEW a \in Alive, NEW z \in 0 .. MaxConsecFail
          PROVE  [s EXCEPT !.last_alive = a, !.first_rx = FALSE, !.fail_count = z] \in E2eState
      BY DEF E2eState
    <2> QED BY <1>1, <2>1, <2>2 DEF SC_E2E_Check
  <1>2. CASE ~SC_E2E_Valid(s, f) /\ f.check = "short"
    BY <1>2 DEF SC_E2E_Check
  <1>3. CASE ~SC_E2E_Valid(s, f) /\ f.check # "short"
    <2>1. failures \in 0 .. MaxConsecFail
      BY E2eAssumption DEF E2eState
    <2>2. ASSUME NEW z \in 0 .. MaxConsecFail, NEW b \in BOOLEAN
          PROVE  [s EXCEPT !.fail_count = z, !.failed = b] \in E2eState
      BY DEF E2eState
    <2>3. SC_E2E_Check(s, f)
            = [s EXCEPT !.fail_count = failures, !.failed = s.failed \/ failures >= MaxConsecFail]
      BY <1>3 DEF SC_E2E_Check
    <2>4. (s.failed \/ failures >= MaxConsecFail) \in BOOLEAN
      OBVIOUS
    <2> QED BY <2>1, <2>2, <2>3, <2>4
  <1> QED BY <1>1, <1>2, <1>3

\* A valid frame becomes the reference of the next comparison.
LEMMA E2eCheckValid ==
  ASSUME NEW s \in E2eState, NEW f, SC_E2E_Valid(s, f)
  PROVE  /\ SC_E2E_Check(s, f).last_alive = f.alive
         /\ SC_E2E_Check(s, f).first_rx = FALSE
         /\ SC_E2E_Check(s, f).fail_count = 0
         /\ SC_E2E_Check(s, f).failed = s.failed
  BY DEF SC_E2E_Check, E2eState

-----------------------------------------------------------------------------
(* The heartbeat supervision *)

\* What holds of the supervision record of one ECU between two calls.  The
\* timer never runs further past the timeout than the confirmation has come,
\* and an ECU whose confirmation is complete is confirmed.
HbInv(h) ==
    /\ h \in HbState
    /\ h.recovery_count < HbRecoveryThreshold
    /\ h.confirmed <=> h.confirm_counter = HbConfirmTicks
    /\ ~h.timed_out => h.counter < HbTimeoutTicks /\ h.confirm_counter = 0
    /\ h.counter <= HbTimeoutTicks + h.confirm_counter

LEMMA HbInitInv == HbInv(SC_Heartbeat_Init)
  BY HbAssumption DEF HbInv, HbState, SC_Heartbeat_Init

\* A valid frame restarts the timer, keeps the record sound, and neither sets
\* nor clears the confirmation; it can only end a timeout.
LEMMA NotifyRxInv ==
  ASSUME NEW h, HbInv(h)
  PROVE  /\ HbInv(SC_Heartbeat_NotifyRx(h))
         /\ SC_Heartbeat_NotifyRx(h).counter = 0
         /\ SC_Heartbeat_NotifyRx(h).confirmed = h.confirmed
         /\ SC_Heartbeat_NotifyRx(h).timed_out => h.timed_out
  <1> DEFINE Good(g) == /\ HbInv(g) /\ g.counter = 0 /\ g.confirmed = h.confirmed
                        /\ g.timed_out => h.timed_out
  <1>0. /\ h \in HbState
        /\ 0 \in 0 .. HbTimeoutTicks + HbConfirmTicks /\ 0 \in 0 .. HbConfirmTicks
        /\ 0 \in 0 .. HbRecoveryThreshold /\ FALSE \in BOOLEAN
    BY HbAssumption DEF HbInv
  <1>1. CASE Recovers(h)
    <2>0. SUFFICES ASSUME NEW g, g = [h EXCEPT !.counter = 0, !.timed_out = FALSE,
                                               !.confirm_counter = 0, !.recovery_count = 0]
                 PROVE  Good(g)
      BY <1>1 DEF SC_Heartbeat_NotifyRx
    <2>1. /\ g \in HbState /\ g.counter = 0 /\ g.timed_out = FALSE
          /\ g.confirm_counter = 0 /\ g.confirmed = h.confirmed /\ g.recovery_count = 0
      BY <1>0, <2>0 DEF HbState
    <2> QED BY <1>0, <1>1, <2>1, HbAssumption DEF Recovers, HbInv, HbState
  <1>2. CASE ~Recovers(h) /\ h.timed_out /\ ~h.confirmed
    <2>0. SUFFICES ASSUME NEW g, g = [h EXCEPT !.counter = 0,
                                             !.recovery_count = h.recovery_count + 1]
                 PROVE  Good(g)
      BY <1>2 DEF SC_Heartbeat_NotifyRx
    <2>1. h.recovery_count + 1 \in 0 .. HbRecoveryThreshold
      BY <1>0, HbAssumption DEF HbInv, HbState
    <2>2. /\ g \in HbState /\ g.counter = 0 /\ g.timed_out = h.timed_out
          /\ g.confirm_counter = h.confirm_counter /\ g.confirmed = h.confirmed
          /\ g.recovery_count = h.recovery_count + 1
      BY <1>0, <2>0, <2>1 DEF HbState
    <2> QED BY <1>0, <1>2, <2>2, HbAssumption DEF Recovers, HbInv, HbState
  <1>3. CASE ~Recovers(h) /\ ~(h.timed_out /\ ~h.confirmed)
    <2>0. SUFFICES ASSUME NEW g, g = [h EXCEPT !.counter = 0]
                 PROVE  Good(g)
      BY <1>3 DEF SC_Heartbeat_NotifyRx
    <2>1. /\ g \in HbState /\ g.counter = 0 /\ g.timed_out = h.timed_out
          /\ g.confirm_counter = h.confirm_counter /\ g.confirmed = h.confirmed
          /\ g.recovery_count = h.recovery_count
      BY <1>0, <2>0 DEF HbState
    <2> QED BY <1>0, <2>1, HbAssumption DEF HbInv, HbState
  <1> QED BY <1>1, <1>2, <1>3

\* One supervised tick: the record stays sound, the timer of an unconfirmed
\* ECU advances by one, and the confirmation is never taken back and is only
\* ever completed past the timeout.
LEMMA MonitorInv ==
  ASSUME NEW h, HbInv(h)
  PROVE  /\ HbInv(SC_Heartbeat_Monitor(h))
         /\ SC_Heartbeat_Monitor(h).counter = IF h.confirmed THEN h.counter ELSE h.counter + 1
         /\ h.confirmed => SC_Heartbeat_Monitor(h).confirmed
         /\ ~h.confirmed /\ SC_Heartbeat_Monitor(h).confirmed
              => SC_Heartbeat_Monitor(h).counter >= HbTimeoutTicks
         /\ ~h.timed_out /\ h.counter + 1 < HbTimeoutTicks
              => ~SC_Heartbeat_Monitor(h).timed_out
                 /\ SC_Heartbeat_Monitor(h).confirmed = h.confirmed
  <1> DEFINE Good(g) == /\ HbInv(g)
                        /\ g.counter = IF h.confirmed THEN h.counter ELSE h.counter + 1
                        /\ h.confirmed => g.confirmed
                        /\ ~h.confirmed /\ g.confirmed => g.counter >= HbTimeoutTicks
                        /\ ~h.timed_out /\ h.counter + 1 < HbTimeoutTicks
                             => ~g.timed_out /\ g.confirmed = h.confirmed
  <1>0. /\ h \in HbState /\ TRUE \in BOOLEAN
        /\ 0 \in 0 .. HbConfirmTicks /\ 0 \in 0 .. HbRecoveryThreshold
    BY HbAssumption DEF HbInv
  <1>1. CASE h.confirmed
    <2>1. SC_Heartbeat_Monitor(h) = h
      BY <1>1 DEF SC_Heartbeat_Monitor
    <2>2. Good(h)
      BY <1>1, HbAssumption DEF HbInv
    <2> QED BY <2>1, <2>2
  <1>2. CASE ~h.confirmed /\ h.counter + 1 < HbTimeoutTicks
    <2>0. SUFFICES ASSUME NEW g, g = [h EXCEPT !.counter = h.counter + 1]
                 PROVE  Good(g)
      BY <1>2 DEF SC_Heartbeat_Monitor
    <2>1. h.counter + 1 \in 0 .. HbTimeoutTicks + HbConfirmTicks
      BY <1>0, <1>2, HbAssumption DEF HbState
    <2>2. /\ g \in HbState /\ g.counter = h.counter + 1 /\ g.timed_out = h.timed_out
          /\ g.confirm_counter = h.confirm_counter /\ g.confirmed = h.confirmed
          /\ g.recovery_count = h.recovery_count
      BY <1>0, <2>0, <2>1 DEF HbState
    <2> QED BY <1>0, <1>2, <2>2, HbAssumption DEF HbInv, HbState
  <1>3. CASE ~h.confirmed /\ ~(h.counter + 1 < HbTimeoutTicks) /\ ~h.timed_out
    <2>0. SUFFICES ASSUME NEW g, g = [h EXCEPT !.counter = h.counter + 1, !.timed_out = TRUE,
                                             !.confirm_counter = 0]
                 PROVE  Good(g)
      BY <1>3 DEF SC_Heartbeat_Monitor
    <2>1. h.counter + 1 \in 0 .. HbTimeoutTicks + HbConfirmTicks
      BY <1>0, <1>3, HbAssumption DEF HbInv, HbState
    <2>2. /\ g \in HbState /\ g.counter = h.counter + 1 /\ g.timed_out = TRUE
          /\ g.confirm_counter = 0 /\ g.confirmed = h.confirmed
          /\ g.recovery_count = h.recovery_count
      BY <1>0, <2>0, <2>1 DEF HbState
    <2> QED BY <1>0, <1>3, <2>2, HbAssumption DEF HbInv, HbState
  <1>4. CASE ~h.confirmed /\ ~(h.counter + 1 < HbTimeoutTicks) /\ h.timed_out
    <2> DEFINE c == h.confirm_counter + 1 >= HbConfirmTicks
    <2>0. SUFFICES ASSUME NEW g, g = [h EXCEPT !.counter = h.counter + 1, !.recovery_count = 0,
                                             !.confirm_counter = h.confirm_counter + 1,
                                             !.confirmed = c]
                 PROVE  Good(g)
      BY <1>4 DEF SC_Heartbeat_Monitor
    <2>1. /\ h.confirm_counter + 1 \in 0 .. HbConfirmTicks
          /\ h.counter + 1 \in 0 .. HbTimeoutTicks + HbConfirmTicks
          /\ c \in BOOLEAN
      BY <1>0, <1>4, HbAssumption DEF HbInv, HbState
    <2>2. /\ g \in HbState /\ g.counter = h.counter + 1 /\ g.timed_out = h.timed_out
          /\ g.confirm_counter = h.confirm_counter + 1 /\ g.confirmed = c
          /\ g.recovery_count = 0
      BY <1>0, <2>0, <2>1 DEF HbState
    <2> QED BY <1>0, <1>4, <2>1, <2>2, HbAssumption DEF HbInv, HbState
  <1> QED BY <1>1, <1>2, <1>3, <1>4
=============================================================================
