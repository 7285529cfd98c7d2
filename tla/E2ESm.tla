------------------------------- MODULE E2ESm -------------------------------
(***************************************************************************)
(* The E2E state machine of the basic software                             *)
(* (firmware/shared/bsw/services/E2E_Sm.c): a circular buffer of the last  *)
(* samples, two counters kept along with it, and a status that changes at  *)
(* most once a check.  The buffer has as many entries as are used.         *)
(***************************************************************************)
EXTENDS Integers

\* Clamped to E2E_SM_MAX_WINDOW, 16, in the code.
SmConfigs ==
    [WindowSize : Nat \ {0}, MinOkStateInit : Nat, MaxErrorStateValid : Nat,
     MinOkStateInvalid : Nat]

Samples == {"OK", "ERROR"}
SmStatuses == {"INIT", "VALID", "INVALID"}

SmVariables(config) ==
    [Status : SmStatuses, WindowBuf : [0 .. config.WindowSize - 1 -> Samples],
     WindowIdx : 0 .. config.WindowSize - 1, OkCount : 0 .. config.WindowSize,
     ErrorCount : 0 .. config.WindowSize, SampleCount : 0 .. config.WindowSize]

E2E_Sm_Init(config) ==
    [Status |-> "INIT", WindowBuf |-> [i \in 0 .. config.WindowSize - 1 |-> "ERROR"],
     WindowIdx |-> 0, OkCount |-> 0, ErrorCount |-> 0, SampleCount |-> 0]

\* Mutant of Evict: an evicted error is not taken off its count.
EvictOks(config, sm) ==
    IF sm.SampleCount < config.WindowSize THEN [sm EXCEPT !.SampleCount = @ + 1]
    ELSE IF sm.WindowBuf[sm.WindowIdx] = "OK"
    THEN [sm EXCEPT !.OkCount = IF @ > 0 THEN @ - 1 ELSE @]
    ELSE sm

Evict(config, sm) ==
    IF sm.SampleCount < config.WindowSize THEN [sm EXCEPT !.SampleCount = @ + 1]
    ELSE IF sm.WindowBuf[sm.WindowIdx] = "OK"
    THEN [sm EXCEPT !.OkCount = IF @ > 0 THEN @ - 1 ELSE @]
    ELSE [sm EXCEPT !.ErrorCount = IF @ > 0 THEN @ - 1 ELSE @]

Insert(config, sm, sample) ==
    [sm EXCEPT !.WindowBuf[sm.WindowIdx] = sample,
               !.OkCount = IF sample = "OK" THEN @ + 1 ELSE @,
               !.ErrorCount = IF sample = "OK" THEN @ ELSE @ + 1,
               !.WindowIdx = IF @ + 1 >= config.WindowSize THEN 0 ELSE @ + 1]

\* Mutant of NextStatus: the allowed errors end a valid state already.
NextStatusTooStrict(config, status, oks, errors) ==
    CASE status = "INIT" -> IF oks >= config.MinOkStateInit THEN "VALID" ELSE "INIT"
      [] status = "VALID" -> IF errors >= config.MaxErrorStateValid THEN "INVALID" ELSE "VALID"
      [] status = "INVALID" -> IF oks >= config.MinOkStateInvalid THEN "VALID" ELSE "INVALID"

NextStatus(config, status, oks, errors) ==
    CASE status = "INIT" -> IF oks >= config.MinOkStateInit THEN "VALID" ELSE "INIT"
      [] status = "VALID" -> IF errors > config.MaxErrorStateValid THEN "INVALID" ELSE "VALID"
      [] status = "INVALID" -> IF oks >= config.MinOkStateInvalid THEN "VALID" ELSE "INVALID"

E2E_Sm_Check(config, sm, sample) ==
    LET fed == Insert(config, Evict(config, sm), sample)
    IN  [fed EXCEPT !.Status = NextStatus(config, @, fed.OkCount, fed.ErrorCount)]

-----------------------------------------------------------------------------

\* The slot of the circular buffer that holds the sample of an age, 1 the
\* newest.
Slot(config, sm, age) ==
    IF sm.WindowIdx >= age THEN sm.WindowIdx - age ELSE sm.WindowIdx - age + config.WindowSize

ByAge(config, sm) == [age \in 1 .. sm.SampleCount |-> sm.WindowBuf[Slot(config, sm, age)]]
=============================================================================
