------------------------------- MODULE LosIpc -------------------------------
(***************************************************************************)
(* What the blocking IPC services share: a task that blocked in a pend      *)
(* function goes on inside that function when it runs again.  call[t] is    *)
(* the call task t is inside of, NoCall when it runs application code, so   *)
(* a task starts no other call before it has returned.                      *)
(***************************************************************************)
EXTENDS LosTask

CONSTANT NoCall

VARIABLE call

\* The running task is in application code, or the caller is not a task.
Ready2Call == os.run \in Task => call[os.run] = NoCall
FreeTaskContext == TaskContext /\ Ready2Call

\* The running task is back in its pend function after LOS_Schedule.
InCall(c) == TaskContext /\ call[os.run] = c

\* Block the running task on the wait list h inside the call c.
Block(h, flag, timeout, c) ==
  /\ os' = Reschedule(osTaskWait(os, h, flag, timeout))
  /\ call' = [call EXCEPT ![os.run] = c]

\* The pend function finds out how its wait ended, and returns.
TimedOut == "TIMEOUT" \in os.status[os.run]
ClearTimeout(s) == [s EXCEPT !.status[s.run] = @ \ {"TIMEOUT"}]
Return == call' = [call EXCEPT ![os.run] = NoCall]

\* The task services and the exceptions around the IPC calls.
TaskCall ==
  /\ os.irq \/ Ready2Call
  /\ \/ LOS_TaskCreate
     \/ \E t \in Task : LOS_TaskResume(t)
     \/ \E t \in Task : LOS_TaskSuspend(t)
     \/ \E t \in Task, p \in PriSetArg : LOS_TaskPriSet(t, p)
     \/ \E n \in Ticks : LOS_TaskDelay(n)
     \/ LOS_TaskLock
     \/ LOS_TaskUnlock
KernelStep == (TaskCall \/ Exception) /\ UNCHANGED call

\* A deleted task is in no call any more.
DeleteStep(t) ==
  /\ os.irq \/ Ready2Call
  /\ LOS_TaskDelete(t)
  /\ call' = [call EXCEPT ![t] = NoCall]

\* Waiting on list h, woken by the service, or given up by the tick.
Waiting(t) == \E h \in WaitList : t \in Elems(os.list[h])
Woken(t)   == call[t] # NoCall /\ ~Waiting(t) /\ "TIMEOUT" \notin os.status[t]
Expired(t) == call[t] # NoCall /\ ~Waiting(t) /\ "TIMEOUT" \in os.status[t]

InitIpc == Init /\ call = [t \in Task |-> NoCall]
=============================================================================
