-------------------------- MODULE MCSafetyController --------------------------
(***************************************************************************)
(* A small instance of SafetyController.  Two ECUs where the order of      *)
(* mailboxes or the pairing of ECUs matters; short debounce times, each at *)
(* least two where the code counts.  The fault hypotheses are all single   *)
(* faults and the pairs that act on the same trigger or on the relay.      *)
(***************************************************************************)
EXTENDS SafetyController

\* A timeout of a single tick could pass before the first frame is read.
ASSUME SendersAreHeard == HbTimeoutTicks > 1

MCTorques == {0, 50}
MCCurrents == {0, 700, 12500}
MCHbContents == {[mode |-> "LIMP", faults |-> {1}], [mode |-> "OTHER", faults |-> {0, 2}]}

Hyp(kinds, mbs) == [kinds |-> kinds, mailboxes |-> mbs]

MCFaultHypotheses ==
    {Hyp({}, {}),
     Hyp({"silent"}, {"CVC", "FZC"}), Hyp({"silent", "e2e"}, {"FZC"}),
     Hyp({"silent", "overrun"}, {"FZC"}), Hyp({"silent", "busoff"}, {"FZC"}),
     Hyp({"silent", "esm"}, {"FZC"}), Hyp({"silent", "content"}, {"FZC"}),
     Hyp({"blackout", "overrun"}, {}), Hyp({"blackout", "estop"}, {}),
     Hyp({"e2e", "estop"}, {"ESTOP"}), Hyp({"e2e", "drive"}, {"VEHICLE_STATE"}),
     Hyp({"content", "drive"}, {"FZC"}), Hyp({"readback", "estop"}, {}),
     Hyp({"startup", "busoff"}, {}), Hyp({"flash", "dcan", "overrun"}, {}),
     Hyp({"ram", "canary"}, {})}

\* The hypotheses of the runs that refute a sentence of the documentation.
MCBusOff  == {Hyp({"busoff"}, {})}
MCSilence == {Hyp({"silent"}, {"FZC"})}
=============================================================================
