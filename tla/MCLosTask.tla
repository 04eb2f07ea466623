----------------------------- MODULE MCLosTask -----------------------------
(* Two application tasks, two priorities above the idle one. *)
EXTENDS LosTask

CONSTANTS t1, t2

MCTcbArray == <<t1, t2>>
MCCreatePrio == [t \in Task |-> IF t = Idle THEN {} ELSE {0, 1}]
=============================================================================
