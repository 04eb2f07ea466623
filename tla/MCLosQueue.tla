------------------------------ MODULE MCLosQueue -----------------------------
(* Two application tasks and an interrupt handler on one queue. *)
EXTENDS LosQueue, TLC

CONSTANTS t1, t2, q1, readers, writers, allocators, a, b

MCTcbArray == <<t1, t2>>
MCCreatePrio == [t \in Task |-> IF t = t1 THEN {0} ELSE IF t = t2 THEN {1} ELSE {}]
MCQueueArray == <<q1>>
MCReadWriteList ==
  [side \in Side |-> [q \in Queue |-> IF side = "READ" THEN readers ELSE writers]]
MCMemList == [q \in Queue |-> allocators]
MCTimeouts == {1, LOS_WAIT_FOREVER}
MCSymmetry == Permutations({a, b})
=============================================================================
