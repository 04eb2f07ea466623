------------------------------ MODULE MCLosMux ------------------------------
(* Tasks of different priorities that compete for one or two mutexes. *)
EXTENDS LosMux

CONSTANTS t1, t2, t3, m1, m2

MCTcbArray == <<t1, t2, t3>>
MCTcbPair == <<t1, t2>>
MCCreatePrio ==
  [t \in Task |-> IF t = t1 THEN {0} ELSE IF t = t2 THEN {1}
                  ELSE IF t = Idle THEN {} ELSE {2}]
MCMuxArray == <<m1, m2>>
MCMuxSingle == <<m1>>
MCTimeouts == {1, LOS_WAIT_FOREVER}
MCForever == {LOS_WAIT_FOREVER}
=============================================================================
