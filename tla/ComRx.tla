------------------------------- MODULE ComRx -------------------------------
(***************************************************************************)
(* Reception in the BSW communication module                               *)
(* (firmware/shared/bsw/services/Com.c), for one PDU: the value its signal *)
(* buffers hold and the age of the last frame in receive cycles.  Ages     *)
(* saturate in the code at 0xFFFF; beyond the deadline they change nothing *)
(* and stop there in the model.  Com_ReceiveSignal of a configured signal  *)
(* always succeeds, so a reader cannot tell an old value from a new one.   *)
(***************************************************************************)
EXTENDS Naturals

Com_Init(zero) == [value |-> zero, age |-> 0]

Com_RxIndication(pdu, value) == [value |-> value, age |-> 0]

\* Deadline monitoring: an overdue PDU's signals read zero.
Com_MainFunction_Rx(pdu, deadline, zero) ==
    LET age == IF pdu.age < deadline THEN pdu.age + 1 ELSE pdu.age
    IN  [value |-> IF age >= deadline THEN zero ELSE pdu.value, age |-> age]
=============================================================================
