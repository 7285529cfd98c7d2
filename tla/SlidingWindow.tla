--------------------------- MODULE SlidingWindow ---------------------------
(***************************************************************************)
(* What the E2E state machine promises: its status follows from the last   *)
(* WindowSize samples, the newest first, counted anew at every check.      *)
(***************************************************************************)
EXTENDS E2ESm, FiniteSets

VARIABLES
    config,   \* the thresholds, which never change
    window,   \* the samples by age, 1 the newest
    status

Count(w, sample) == Cardinality({age \in DOMAIN w : w[age] = sample})

Init == window = <<>> /\ status = "INIT"

Check(sample) ==
    LET size == Cardinality(DOMAIN window)
        room == IF size < config.WindowSize THEN size + 1 ELSE size
    IN  /\ window' = [age \in 1 .. room |-> IF age = 1 THEN sample ELSE window[age - 1]]
        /\ status' = NextStatus(config, status, Count(window', "OK"), Count(window', "ERROR"))
        /\ UNCHANGED config

Spec == Init /\ [][\E sample \in Samples : Check(sample)]_<<config, window, status>>
=============================================================================
