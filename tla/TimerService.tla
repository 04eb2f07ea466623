---------------------------- MODULE TimerService ----------------------------
(***************************************************************************)
(* What software timers promise: a timer that is started expires exactly    *)
(* its interval later, a periodic one again and again, until it is stopped. *)
(* The expiries of one tick come in any order.  They wait in a line for the *)
(* task that runs the handlers, and an expiry that finds the line full is   *)
(* dropped.                                                                 *)
(***************************************************************************)
EXTENDS Naturals, Sequences

CONSTANTS Timer, Interval, LineSize

VARIABLES
  setting,  \* mode and interval of a timer, <<>> when it does not exist
  running,  \* the timers that were started
  left,     \* the ticks they still have
  line,     \* the expiries that have not been handled
  scan      \* the expiries of the present tick are on their way

svars == <<setting, running, left, line, scan>>

Init ==
  /\ setting = [t \in Timer |-> <<>>]
  /\ running = {}
  /\ left = [t \in Timer |-> 0]
  /\ line = <<>>
  /\ scan = FALSE

Create(t, mode, n) ==
  /\ ~scan /\ setting[t] = <<>>
  /\ setting' = [setting EXCEPT ![t] = <<mode, n>>]
  /\ UNCHANGED <<running, left, line, scan>>

\* A running timer starts anew.
Start(t) ==
  /\ ~scan /\ setting[t] # <<>>
  /\ running' = running \cup {t}
  /\ left' = [left EXCEPT ![t] = setting[t][2]]
  /\ UNCHANGED <<setting, line, scan>>

Stop(t) ==
  /\ ~scan /\ t \in running
  /\ running' = running \ {t}
  /\ left' = [left EXCEPT ![t] = 0]
  /\ UNCHANGED <<setting, line, scan>>

Delete(t) ==
  /\ ~scan /\ setting[t] # <<>>
  /\ setting' = [setting EXCEPT ![t] = <<>>]
  /\ running' = running \ {t}
  /\ left' = [left EXCEPT ![t] = 0]
  /\ UNCHANGED <<line, scan>>

Tick ==
  /\ ~scan
  /\ left' = [t \in Timer |-> IF t \in running THEN left[t] - 1 ELSE left[t]]
  /\ scan' = (\E t \in running : left[t] = 1)
  /\ UNCHANGED <<setting, running, line>>

Expire(t) ==
  /\ scan /\ t \in running /\ left[t] = 0
  /\ line' = IF Len(line) < LineSize THEN Append(line, t) ELSE line
  /\ CASE setting[t][1] = "ONCE" ->
            /\ setting' = [setting EXCEPT ![t] = <<>>]
            /\ running' = running \ {t}
            /\ UNCHANGED left
       [] setting[t][1] = "NO_SELFDELETE" ->
            /\ running' = running \ {t}
            /\ UNCHANGED <<setting, left>>
       [] setting[t][1] = "PERIOD" ->
            /\ left' = [left EXCEPT ![t] = setting[t][2]]
            /\ UNCHANGED <<setting, running>>
  /\ UNCHANGED scan

Done ==
  /\ scan /\ \A t \in running : left[t] > 0
  /\ scan' = FALSE
  /\ UNCHANGED <<setting, running, left, line>>

Handle ==
  /\ ~scan /\ line # <<>>
  /\ line' = Tail(line)
  /\ UNCHANGED <<setting, running, left, scan>>

Next ==
  \/ \E t \in Timer, mode \in {"ONCE", "PERIOD", "NO_SELFDELETE"}, n \in Interval :
       Create(t, mode, n)
  \/ \E t \in Timer : Start(t) \/ Stop(t) \/ Delete(t) \/ Expire(t)
  \/ Tick \/ Done \/ Handle

Spec == Init /\ [][Next]_svars
=============================================================================
