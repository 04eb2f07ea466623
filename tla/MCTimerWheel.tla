---------------------------- MODULE MCTimerWheel ----------------------------
(* Three tasks on a wheel of four slots, with timeouts of up to two turns and a tick. *)
EXTENDS TimerWheel, TLC

MCSymmetry == Permutations(Task)
=============================================================================
