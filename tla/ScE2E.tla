------------------------------- MODULE ScE2E -------------------------------
(***************************************************************************)
(* End-to-end check of a received CAN frame (firmware/sc/src/sc_e2e.c).    *)
(*                                                                         *)
(* The state kept for one mailbox is a record; the operators below are the *)
(* functions of the file.  A frame is abstracted to what the check can     *)
(* tell apart: whether the data identifier and the CRC match, the 4-bit    *)
(* alive counter, and the payload, which the check does not look into.     *)
(***************************************************************************)
EXTENDS Integers

CONSTANTS
    AliveMod,       \* the alive counter counts modulo this (16 in the code)
    MaxConsecFail   \* SC_E2E_MAX_CONSEC_FAIL

ASSUME E2eAssumption ==
    /\ AliveMod \in Nat \ {0}
    /\ MaxConsecFail \in Nat \ {0}

Alive == 0 .. AliveMod - 1

\* "good": right identifier and CRC; "corrupt": one of them wrong;
\* "short": fewer than two bytes, which the check refuses unexamined.
FrameChecks == {"good", "corrupt", "short"}

Frame(Payload) == [check : FrameChecks, alive : Alive, data : Payload]

E2eState == [last_alive : Alive, first_rx : BOOLEAN,
             fail_count : 0 .. MaxConsecFail, failed : BOOLEAN]

SC_E2E_Init == [last_alive |-> 0, first_rx |-> TRUE, fail_count |-> 0, failed |-> FALSE]

\* Mutant of NextAlive: the increment is not masked to the counter's width.
NextAliveUnmasked(a) == a + 1

NextAlive(a) == (a + 1) % AliveMod

\* The value SC_E2E_Check returns for frame f on a mailbox in state s.
SC_E2E_Valid(s, f) ==
    /\ f.check = "good"
    /\ s.first_rx \/ f.alive = NextAlive(s.last_alive)

\* The state SC_E2E_Check leaves behind.  last_alive moves on valid frames
\* only: after a gap in the sender's counter it is never resynchronised.
\* fail_count is held at the threshold, above which nobody distinguishes it.
SC_E2E_Check(s, f) ==
    IF SC_E2E_Valid(s, f)
    THEN [s EXCEPT !.last_alive = f.alive, !.first_rx = FALSE, !.fail_count = 0]
    ELSE IF f.check = "short"
    THEN s
    ELSE LET failures == IF s.fail_count < MaxConsecFail THEN s.fail_count + 1 ELSE MaxConsecFail
         IN  [s EXCEPT !.fail_count = failures, !.failed = @ \/ failures >= MaxConsecFail]
=============================================================================
