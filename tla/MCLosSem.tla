------------------------------ MODULE MCLosSem ------------------------------
(* Two application tasks and an interrupt handler on one semaphore. *)
EXTENDS LosSem

CONSTANTS t1, t2, s1

MCTcbArray == <<t1, t2>>
MCCreatePrio == [t \in Task |-> IF t = t1 THEN {0} ELSE IF t = t2 THEN {1} ELSE {}]
MCSemArray == <<s1>>
MCTimeouts == {1, LOS_WAIT_FOREVER}
=============================================================================
