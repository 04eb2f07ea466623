----------------------------- MODULE Countdown ------------------------------
(***************************************************************************)
(* What the sort link of the task timers promises: a timer set to n ticks   *)
(* expires in the n-th tick interrupt after that, unless it is deleted.     *)
(* LosTask keeps its timers in this form.                                   *)
(***************************************************************************)
EXTENDS Naturals

CONSTANTS Task, MaxTicks

VARIABLES
  timer,  \* the ticks to expiry of each task, 0: no timer runs
  due,    \* the tasks whose timers expire in the tick being handled
  scan    \* a tick is being handled

cvars == <<timer, due, scan>>

Init == timer = [t \in Task |-> 0] /\ due = {} /\ scan = FALSE

Add(t, n) ==
  /\ ~scan /\ timer[t] = 0
  /\ timer' = [timer EXCEPT ![t] = n]
  /\ UNCHANGED <<due, scan>>

Delete(t) ==
  /\ timer[t] > 0
  /\ timer' = [timer EXCEPT ![t] = 0]
  /\ due' = due \ {t}
  /\ UNCHANGED scan

Tick ==
  /\ ~scan
  /\ scan' = TRUE
  /\ due' = {t \in Task : timer[t] = 1}
  /\ timer' = [t \in Task |-> IF timer[t] > 1 THEN timer[t] - 1 ELSE timer[t]]

Expire(t) ==
  /\ t \in due
  /\ timer' = [timer EXCEPT ![t] = 0]
  /\ due' = due \ {t}
  /\ UNCHANGED scan

Done == scan /\ due = {} /\ scan' = FALSE /\ UNCHANGED <<timer, due>>

Next ==
  \/ \E t \in Task : Delete(t) \/ Expire(t) \/ \E n \in 1 .. MaxTicks : Add(t, n)
  \/ Tick
  \/ Done

Spec == Init /\ [][Next]_cvars
=============================================================================
