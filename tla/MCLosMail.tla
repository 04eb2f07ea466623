------------------------------ MODULE MCLosMail -----------------------------
(* Two application tasks and an interrupt handler on two mail queues. *)
EXTENDS LosMail

CONSTANTS
  t1, t2, q1, q2, x, y, z,
  readers1, readers2, writers1, writers2, allocators1, allocators2

MCTcbArray == <<t1, t2>>
MCCreatePrio == [t \in Task |-> IF t = t1 THEN {0} ELSE IF t = t2 THEN {1} ELSE {}]
MCQueueArray == <<q1, q2>>
MCReadWriteList ==
  [side \in Side |->
     [q \in Queue |-> IF side = "READ" THEN IF q = q1 THEN readers1 ELSE readers2
                      ELSE IF q = q1 THEN writers1 ELSE writers2]]
MCMemList == [q \in Queue |-> IF q = q1 THEN allocators1 ELSE allocators2]
MCMailPool == [q \in Queue |-> IF q = q1 THEN {x, y} ELSE {z}]
MCTimeouts == {1, LOS_WAIT_FOREVER}
=============================================================================
