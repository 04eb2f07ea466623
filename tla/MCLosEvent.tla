----------------------------- MODULE MCLosEvent -----------------------------
(* Two application tasks and an interrupt handler on one event with two flags. *)
EXTENDS LosEvent

CONSTANTS t1, t2, ev, f1, f2

MCTcbArray == <<t1, t2>>
MCCreatePrio == [t \in Task |-> IF t = t1 THEN {0} ELSE IF t = t2 THEN {1} ELSE {}]
MCMasks == {{f1}, {f2}}
Read(mask, mode, clr) == [event |-> ev, mask |-> mask, mode |-> mode, clr |-> clr]
MCEventCall ==
  {Read({f1}, "OR", TRUE), Read({f1, f2}, "AND", TRUE), Read({f1, f2}, "OR", FALSE)}
MCTimeouts == {1, LOS_WAIT_FOREVER}
=============================================================================
