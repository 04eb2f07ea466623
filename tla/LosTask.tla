------------------------------ MODULE LosTask ------------------------------
(***************************************************************************)
(* The task manager and the scheduler of the Huawei LiteOS kernel:         *)
(* los_task.c, los_priqueue.c, los_timeslice.c, the tick interrupt of      *)
(* los_tick.c and the context switch of the Cortex-M port.                 *)
(*                                                                         *)
(* The kernel state is one record, os.  Every C function that changes it   *)
(* under LOS_IntLock is an operator from kernel states to kernel states,   *)
(* composed as the C code composes the calls, and every API entry point,   *)
(* interrupt step and exception handler is one action.  The IPC modules    *)
(* extend this module and use the same operators on the same record.       *)
(***************************************************************************)
EXTENDS Naturals, Sequences, FiniteSets

CONSTANTS
  TcbArray,     \* the task control blocks of g_pstTaskCBArray but the idle one, in order
  Idle,         \* the task with identifier g_uwIdleTaskID
  Dummy,        \* g_pstTaskCBArray[g_uwTskMaxNum], stands for a deleted running task
  SysTask,      \* the tasks CHECK_TASKID protects: idle and, where it exists, swtmr
  Lowest,       \* OS_TASK_PRIORITY_LOWEST; 0 is the highest priority
  WaitList,     \* the wait lists of the semaphores, mutexes, events and queues
  FreeTask,     \* the list head g_stLosFreeTask
  RecycleList,  \* the list head g_stTskRecyleList
  CreatePrio,   \* the priorities the application creates each task with
  PriSetArg,    \* the priorities the application passes to LOS_TaskPriSet
  MaxTicks,     \* bound: the longest delay or timeout asked for, in ticks
  MaxLock,      \* bound: the deepest nesting of LOS_TaskLock
  TimeSlice,    \* LOSCFG_BASE_CORE_TIMESLICE_TIMEOUT
  IsrSuspends   \* do interrupt handlers call LOS_TaskSuspend?

Elems(q) == {q[i] : i \in DOMAIN q}

User == Elems(TcbArray)
Task == User \cup {Idle}
Tcb  == Task \cup {Dummy}
Prio == 0 .. Lowest
Heads == Prio \cup WaitList \cup {FreeTask, RecycleList}

Flag == {"UNUSED", "SUSPEND", "READY", "PEND", "RUNNING", "DELAY", "TIMEOUT", "PEND_QUEUE"}

\* OS_CHECK_TASK_BLOCK: what keeps a resumed task off the ready list.
Blocked == {"DELAY", "PEND", "SUSPEND", "PEND_QUEUE"}

LOS_WAIT_FOREVER == MaxTicks + 1
Ticks == 1 .. MaxTicks

ASSUME TcbAssumption ==
  /\ TcbArray \in Seq(Elems(TcbArray))
  /\ \A i, j \in DOMAIN TcbArray : TcbArray[i] = TcbArray[j] => i = j
  /\ Idle \notin User /\ Dummy \notin Task
  /\ Idle \in SysTask /\ SysTask \subseteq Task
ASSUME HeadAssumption ==
  /\ Lowest \in Nat \ {0}
  /\ FreeTask # RecycleList
  /\ {FreeTask, RecycleList} \cap (Prio \cup WaitList) = {}
  /\ Prio \cap WaitList = {}
ASSUME BoundAssumption ==
  /\ MaxTicks \in Nat \ {0} /\ MaxLock \in Nat /\ TimeSlice \in Nat \ {0}
  /\ CreatePrio \in [Task -> SUBSET (0 .. Lowest - 1)]
  /\ PriSetArg \subseteq Prio /\ IsrSuspends \in BOOLEAN

VARIABLE os

KernelState ==
  [status : [Tcb -> SUBSET Flag],         \* usTaskStatus
   prio : [Task -> Prio],                 \* usPriority
   list : [Heads -> Seq(Task)],           \* the doubly linked lists of stPendList nodes
   timer : [Task -> 0 .. MaxTicks],       \* ticks to expiry on the sort link, 0: not on it
   run : Tcb, new : Task,                 \* g_stLosTask.pstRunTask, .pstNewTask
   lock : 0 .. MaxLock,                   \* g_usLosTaskLock
   scheduled : BOOLEAN,                   \* g_bTaskScheduled
   resched : SUBSET Task,                 \* released the interrupt lock, about to call LOS_Schedule
   pendSV : BOOLEAN,                      \* the PendSV exception is pending
   irq : BOOLEAN,                         \* a device interrupt handler is active
   scan : BOOLEAN,                        \* the tick handler is in the loop of osTaskScan
   due : SUBSET Task,                     \* nodes of the sort link slot that expire now
   needSchedule : BOOLEAN,                \* bNeedSchedule of osTaskScan
   sliceTask : Tcb,                       \* g_stTaskTimeSlice.pstTask; Dummy with no ticks left: NULL
   sliceLeft : 0 .. TimeSlice - 1,        \* ticks to the end of its slice
   wild : BOOLEAN]                        \* a list operation followed a NULL link

----------------------------------------------------------------------------
\* Doubly linked lists.  A task control block has one node, stPendList, for the
\* ready list, the wait list, the free list or the recycle list it is on.

Unlink(q, t) ==
  IF t \notin Elems(q) THEN q
  ELSE LET i == CHOOSE i \in DOMAIN q : q[i] = t
       IN  [j \in 1 .. Len(q) - 1 |-> IF j < i THEN q[j] ELSE q[j + 1]]

Linked(s, t) == \E h \in Heads : t \in Elems(s.list[h])

\* Deleting a node that is on no list goes through the NULL links LOS_ListDelete left.
LOS_ListDelete(s, t) ==
  [s EXCEPT !.list = [h \in Heads |-> Unlink(s.list[h], t)],
            !.wild = @ \/ ~Linked(s, t)]

LOS_ListTailInsert(s, h, t) == [s EXCEPT !.list[h] = Append(@, t)]
LOS_ListAdd(s, h, t) == [s EXCEPT !.list[h] = <<t>> \o @]

\* Every caller sets READY as it enqueues and clears it as it dequeues.
Enqueue(s, t) ==
  LOS_ListTailInsert([s EXCEPT !.status[t] = @ \cup {"READY"}], s.prio[t], t)
Dequeue(s, t) ==
  LOS_ListDelete([s EXCEPT !.status[t] = @ \ {"READY"}], t)

osPriqueueTop(s) ==
  LET p == CHOOSE p \in Prio : /\ s.list[p] # <<>>
                               /\ \A q \in Prio : s.list[q] # <<>> => p <= q
  IN  Head(s.list[p])

\* Seeded fault: a reschedule that does not look at the task lock.
ScheduleIgnoringLock(s) ==
  LET top == osPriqueueTop(s)
  IN  [s EXCEPT !.new = top, !.pendSV = @ \/ s.run # top]

\* Seeded fault: no preemption while the running task is ready.
ScheduleCooperatively(s) ==
  LET top == osPriqueueTop(s)
  IN  [s EXCEPT !.new = top,
                !.pendSV = @ \/ (/\ s.run # top /\ s.lock = 0
                                 /\ "READY" \notin s.status[s.run])]

LOS_Schedule(s) ==
  LET top == osPriqueueTop(s)
  IN  [s EXCEPT !.new = top, !.pendSV = @ \/ (s.run # top /\ s.lock = 0)]

\* A task calls LOS_Schedule after it has released the interrupt lock, and interrupts come
\* in between.  A handler reaches its LOS_Schedule without being interrupted here.
Reschedule(s) ==
  IF s.irq \/ s.scan THEN LOS_Schedule(s) ELSE [s EXCEPT !.resched = @ \cup {s.run}]

\* Seeded fault: a ready task stays on the list of its old priority.
PriModifyInPlace(s, t, p) == [s EXCEPT !.prio[t] = p]

osTaskPriModify(s, t, p) ==
  IF "READY" \in s.status[t]
  THEN Enqueue([Dequeue(s, t) EXCEPT !.prio[t] = p], t)
  ELSE [s EXCEPT !.prio[t] = p]

\* Taking off the sort link a node that is not on it follows NULL links.
osTimerListDelete(s, t) ==
  [s EXCEPT !.timer[t] = 0, !.due = @ \ {t}, !.wild = @ \/ s.timer[t] = 0]

\* Block the running task on wait list h; flag is PEND or PEND_QUEUE.
osTaskWait(s, h, flag, timeout) ==
  LET w == LOS_ListTailInsert(Dequeue(s, s.run), h, s.run)
  IN  IF timeout = LOS_WAIT_FOREVER
      THEN [w EXCEPT !.status[s.run] = @ \cup {flag}]
      ELSE [w EXCEPT !.status[s.run] = @ \cup {flag, "TIMEOUT"}, !.timer[s.run] = timeout]

\* Seeded fault: a suspended task becomes ready when its wait is over.
TaskWakeSuspended(s, t, flag) ==
  LET w == LOS_ListDelete([s EXCEPT !.status[t] = @ \ {flag, "TIMEOUT"}], t)
  IN  Enqueue(IF "TIMEOUT" \in s.status[t] THEN osTimerListDelete(w, t) ELSE w, t)

osTaskWake(s, t, flag) ==
  LET w == LOS_ListDelete([s EXCEPT !.status[t] = @ \ {flag, "TIMEOUT"}], t)
      c == IF "TIMEOUT" \in s.status[t] THEN osTimerListDelete(w, t) ELSE w
  IN  IF "SUSPEND" \in s.status[t] THEN c ELSE Enqueue(c, t)

----------------------------------------------------------------------------
\* Seeded fault: an expired wait makes a suspended task ready.
TimerExpireSuspended(s, t) ==
  LET e == [s EXCEPT !.timer[t] = 0, !.due = @ \ {t}, !.status[t] = @ \ {"DELAY"}]
  IN  [Enqueue(e, t) EXCEPT !.needSchedule = TRUE]

\* One iteration of the loop of osTaskScan, for the task t at the head of the slot.
\* TIMEOUT stays set: it tells the pend function that the wait expired.
TimerExpire(s, t) ==
  LET e == [s EXCEPT !.timer[t] = 0, !.due = @ \ {t}]
      w == IF s.status[t] \cap {"PEND", "PEND_QUEUE"} # {} THEN LOS_ListDelete(e, t) ELSE e
      c == [w EXCEPT !.status[t] = @ \ (IF "PEND" \in @ THEN {"PEND"}
                                        ELSE IF "PEND_QUEUE" \in @ THEN {"PEND_QUEUE"}
                                        ELSE {"DELAY"})]
  IN  IF "SUSPEND" \in s.status[t] THEN c
      ELSE [Enqueue(c, t) EXCEPT !.needSchedule = TRUE]

\* Seeded fault: the yielding task stays at the head of its list.
YieldToSelf(s) == LOS_Schedule(s)

\* Move the running task behind its equals; no effect when it is alone or not ready.
Yield(s) ==
  IF "READY" \in s.status[s.run] /\ Len(s.list[s.prio[s.run]]) > 1
  THEN Reschedule(Enqueue(LOS_ListDelete(s, s.run), s.run))
  ELSE s

\* The time slice is restarted when another task runs, and ends with a yield.
osTimesliceCheck(s) ==
  LET left == IF s.sliceTask # s.run \/ s.sliceLeft = 0 THEN TimeSlice - 1
              ELSE s.sliceLeft - 1
  IN  IF left = 0
      THEN Yield([s EXCEPT !.sliceTask = Dummy, !.sliceLeft = 0])
      ELSE [s EXCEPT !.sliceTask = s.run, !.sliceLeft = left]

\* Take the blocks of tasks that deleted themselves back to the free list, last first.
RecycleTcbs(s) ==
  LET r == s.list[RecycleList]
  IN  [s EXCEPT !.list[RecycleList] = <<>>,
                !.list[FreeTask] = [i \in 1 .. Len(r) |-> r[Len(r) + 1 - i]] \o @]

\* Initialise the first free block; the stack is allocated.
InitTcb(s, p) ==
  LET t == Head(s.list[FreeTask])
  IN  [s EXCEPT !.list[FreeTask] = Tail(@), !.status[t] = {"SUSPEND"}, !.prio[t] = p]

\* Seeded fault: the node is unlinked without looking whether it is linked.
UnpendAlways(s, t) == Dequeue(s, t)

\* Seeded fault: a deleted task stays on the wait list it is on.
UnpendReadyOnly(s, t) == IF "READY" \in s.status[t] THEN Dequeue(s, t) ELSE s

Unpend(s, t) ==
  IF "READY" \in s.status[t] THEN Dequeue(s, t)
  ELSE IF s.status[t] \cap {"PEND", "PEND_QUEUE"} # {} THEN LOS_ListDelete(s, t)
  ELSE s

\* The running task is gone: its block waits on the recycle list while Dummy stands
\* for it until the switch.
RetireRunning(s, t) ==
  LET d == [s EXCEPT !.status[Dummy] = (s.status[t] \ {"SUSPEND"}) \cup {"UNUSED"},
                     !.status[t] = {"UNUSED"},
                     !.run = Dummy, !.new = osPriqueueTop(s), !.pendSV = TRUE]
  IN  LOS_ListTailInsert(d, RecycleList, t)

\* Seeded fault: the next task is not chosen again, it may be the deleted one.
ReleaseTcbKeepNew(s, t) ==
  LOS_ListAdd([s EXCEPT !.status[t] = {"UNUSED"}], FreeTask, t)

ReleaseTcb(s, t) ==
  LOS_ListAdd([s EXCEPT !.status[t] = {"UNUSED"}, !.new = osPriqueueTop(s)], FreeTask, t)

DeleteTask(s, t) ==
  LET u == Unpend([s EXCEPT !.resched = @ \ {t}], t)
      d == IF s.status[t] \cap {"DELAY", "TIMEOUT"} # {} THEN osTimerListDelete(u, t) ELSE u
  IN  IF "RUNNING" \in s.status[t] THEN RetireRunning(d, t)
      ELSE ReleaseTcb(d, t)

----------------------------------------------------------------------------
\* Who may call: main before LOS_Start, the running task when no exception is pending
\* or active, an interrupt handler.  After a wild list operation nothing is defined.
BootContext == ~os.scheduled /\ ~os.wild
ThreadMode == /\ os.scheduled /\ os.run \in User
              /\ ~os.pendSV /\ ~os.irq /\ ~os.scan /\ ~os.wild
TaskContext == ThreadMode /\ os.run \notin os.resched
IrqContext  == os.irq /\ ~os.wild

CHECK_TASKID(t) == t \notin SysTask

\* The kernel as osMain leaves it: only the idle task exists.
InitOs ==
  [status |-> [t \in Tcb |-> IF t = Idle THEN {"READY"}
                             ELSE IF t = Dummy THEN {"UNUSED", "RUNNING"} ELSE {"UNUSED"}],
   prio |-> [t \in Task |-> Lowest],
   list |-> [h \in Heads |-> IF h = Lowest THEN <<Idle>>
                             ELSE IF h = FreeTask THEN TcbArray ELSE <<>>],
   timer |-> [t \in Task |-> 0],
   run |-> Dummy, new |-> Idle, lock |-> 0, scheduled |-> FALSE, pendSV |-> FALSE,
   resched |-> {}, irq |-> FALSE, scan |-> FALSE, due |-> {}, needSchedule |-> FALSE,
   sliceTask |-> Dummy, sliceLeft |-> 0, wild |-> FALSE]

\* LOS_Start enters the task pstNewTask.
LOS_StartToRun ==
  /\ BootContext
  /\ os' = [os EXCEPT !.scheduled = TRUE, !.run = os.new,
                      !.status[os.new] = @ \cup {"RUNNING"}]

\* The recycled blocks are freed even when no block or no stack can be had.
LOS_TaskCreateOnly ==
  /\ BootContext \/ TaskContext
  /\ LET s == RecycleTcbs(os)
     IN  \/ os' = s
         \/ /\ s.list[FreeTask] # <<>>
            /\ \E p \in CreatePrio[Head(s.list[FreeTask])] : os' = InitTcb(s, p)

LOS_TaskCreate ==
  /\ BootContext \/ TaskContext
  /\ LET s == RecycleTcbs(os)
         t == Head(s.list[FreeTask])
     IN  /\ s.list[FreeTask] # <<>>
         /\ \E p \in CreatePrio[t] :
              LET c == Enqueue([InitTcb(s, p) EXCEPT !.status[t] = {}], t)
                  top == osPriqueueTop(c)
              IN  os' = [c EXCEPT !.new = top,
                                  !.pendSV = @ \/ (/\ s.scheduled /\ s.lock = 0
                                                   /\ s.run # top)]

LOS_TaskResume(t) ==
  /\ BootContext \/ TaskContext \/ IrqContext
  /\ "SUSPEND" \in os.status[t]
  /\ LET s == [os EXCEPT !.status[t] = @ \ {"SUSPEND"}]
         e == Enqueue(s, t)
     IN  os' = IF s.status[t] \cap Blocked # {} THEN s
               ELSE IF os.scheduled THEN Reschedule(e)
               ELSE [e EXCEPT !.new = osPriqueueTop(e)]

LOS_TaskSuspend(t) ==
  /\ TaskContext \/ (IrqContext /\ IsrSuspends)
  /\ CHECK_TASKID(t)
  /\ os.status[t] \cap {"UNUSED", "SUSPEND"} = {}
  /\ ~("RUNNING" \in os.status[t] /\ os.lock # 0)
  /\ LET d == IF "READY" \in os.status[t] THEN Dequeue(os, t) ELSE os
         s == [d EXCEPT !.status[t] = @ \cup {"SUSPEND"}]
     IN  os' = IF t = os.run THEN Reschedule(s) ELSE s

LOS_TaskDelete(t) ==
  /\ TaskContext \/ IrqContext
  /\ CHECK_TASKID(t)
  /\ "UNUSED" \notin os.status[t]
  /\ ~("RUNNING" \in os.status[t] /\ os.lock # 0)
  /\ os' = DeleteTask(os, t)

\* A task function returns: osTaskEntry drops the task lock and deletes the task.
osTaskEntryReturn ==
  /\ TaskContext
  /\ LET s == [os EXCEPT !.lock = 0]
         u == Unpend(s, s.run)
         d == IF /\ s.status[s.run] \cap {"PEND", "PEND_QUEUE"} # {}
                 /\ s.status[s.run] \cap {"READY"} = {}
                 /\ s.status[s.run] \cap {"DELAY", "TIMEOUT"} # {}
              THEN osTimerListDelete(u, s.run) ELSE u
     IN  os' = RetireRunning(d, s.run)

LOS_TaskDelay(n) ==
  /\ TaskContext
  /\ os.lock = 0
  /\ LET d == Dequeue(os, os.run)
     IN  os' = Reschedule([d EXCEPT !.timer[os.run] = n,
                                    !.status[os.run] = @ \cup {"DELAY"}])

LOS_TaskYield == TaskContext /\ os' = Yield(os)

LOS_TaskPriSet(t, p) ==
  /\ TaskContext
  /\ t # Idle
  /\ "UNUSED" \notin os.status[t]
  /\ LET s == osTaskPriModify(os, t, p)
     IN  os' = IF "READY" \in os.status[t] THEN Reschedule(s) ELSE s

LOS_TaskLock ==
  /\ TaskContext /\ os.lock < MaxLock
  /\ os' = [os EXCEPT !.lock = @ + 1]

\* Seeded fault: an unlock without a lock wraps the counter around.
TaskUnlockUnbalanced ==
  /\ TaskContext
  /\ os' = [os EXCEPT !.lock = IF @ = 0 THEN 65535 ELSE @ - 1]

LOS_TaskUnlock ==
  /\ TaskContext /\ os.lock > 0
  /\ LET s == [os EXCEPT !.lock = @ - 1]
     IN  os' = IF s.lock = 0 THEN Reschedule(s) ELSE s

\* The task goes on from the end of its critical section to LOS_Schedule.
TaskReschedule ==
  /\ ThreadMode /\ os.run \in os.resched
  /\ os' = LOS_Schedule([os EXCEPT !.resched = @ \ {os.run}])

----------------------------------------------------------------------------
\* Interrupts.  The switch and the tick have the lowest exception priority, so a device
\* interrupt may come before the switch and between two iterations of the scan.

osPendSV ==
  /\ os.pendSV /\ ~os.irq /\ ~os.scan /\ ~os.wild
  /\ os' = [os EXCEPT !.pendSV = FALSE, !.run = os.new,
                      !.status = [t \in Tcb |-> IF t = os.new THEN @[t] \cup {"RUNNING"}
                                                ELSE IF t = os.run THEN @[t] \ {"RUNNING"}
                                                ELSE @[t]]]

osInterruptEnter ==
  /\ os.scheduled /\ ~os.irq /\ ~os.wild
  /\ os' = [os EXCEPT !.irq = TRUE]

osInterruptExit ==
  /\ IrqContext
  /\ os' = [os EXCEPT !.irq = FALSE]

\* Seeded fault: the countdown stops one tick early and the last one never comes.
NextSlotOffByOne(s) ==
  [s EXCEPT !.due = {t \in Task : s.timer[t] = 1},
            !.timer = [t \in Task |-> IF @[t] > 2 THEN @[t] - 1 ELSE @[t]]]

\* The nodes whose time has come and the countdown of the others.
NextSlot(s) ==
  [s EXCEPT !.due = {t \in Task : s.timer[t] = 1},
            !.timer = [t \in Task |-> IF @[t] > 1 THEN @[t] - 1 ELSE @[t]]]

\* osTickHandler up to the loop of osTaskScan: the cursor moves to the next slot.
osTickHandler ==
  /\ os.scheduled /\ ~os.irq /\ ~os.scan /\ ~os.wild
  /\ os' = NextSlot(osTimesliceCheck([os EXCEPT !.scan = TRUE, !.needSchedule = FALSE]))

osTaskScanNext(t) ==
  /\ os.scan /\ ~os.irq /\ ~os.wild
  /\ t \in os.due
  /\ os' = TimerExpire(os, t)

osTaskScanEnd ==
  /\ os.scan /\ ~os.irq /\ ~os.wild
  /\ os.due = {}
  /\ LET s == [os EXCEPT !.scan = FALSE, !.needSchedule = FALSE]
     IN  os' = IF os.needSchedule THEN LOS_Schedule(s) ELSE s

Init == os = InitOs

\* The calls of tasks and of interrupt handlers.
Call ==
  \/ LOS_TaskCreateOnly
  \/ LOS_TaskCreate
  \/ \E t \in Task : LOS_TaskResume(t)
  \/ \E t \in Task : LOS_TaskSuspend(t)
  \/ \E t \in Task : LOS_TaskDelete(t)
  \/ \E t \in Task, p \in PriSetArg : LOS_TaskPriSet(t, p)
  \/ osTaskEntryReturn
  \/ \E n \in Ticks : LOS_TaskDelay(n)
  \/ LOS_TaskYield
  \/ LOS_TaskLock
  \/ LOS_TaskUnlock

Exception ==
  \/ LOS_StartToRun
  \/ TaskReschedule
  \/ osPendSV
  \/ osInterruptEnter
  \/ osInterruptExit
  \/ osTickHandler
  \/ \E t \in Task : osTaskScanNext(t)
  \/ osTaskScanEnd

Next == Call \/ Exception

Spec == Init /\ [][Next]_os

----------------------------------------------------------------------------
TypeOK == os \in KernelState

\* Each node is linked at one place at most: a second insertion corrupts both lists.
NodeLinkedOnce(s) ==
  \A h1, h2 \in Heads :
    \A i \in DOMAIN s.list[h1], j \in DOMAIN s.list[h2] :
      s.list[h1][i] = s.list[h2][j] => h1 = h2 /\ i = j

\* The ready list of a priority holds exactly the ready tasks of that priority.
ReadyListAgrees(s) ==
  \A t \in Task, p \in Prio :
    t \in Elems(s.list[p]) <=> "READY" \in s.status[t] /\ s.prio[t] = p

\* The wait lists hold exactly the pending tasks, the free and the recycle list the
\* unused blocks.
WaitListAgrees(s) ==
  \A t \in Task :
    /\ s.status[t] \cap {"PEND", "PEND_QUEUE"} # {}
         <=> \E h \in WaitList : t \in Elems(s.list[h])
    /\ "UNUSED" \in s.status[t]
         <=> t \in Elems(s.list[FreeTask]) \cup Elems(s.list[RecycleList])

\* A ready task waits for nothing, a blocked one for one thing, and an unused block has
\* no other state.
StatusExclusive(s) ==
  \A t \in Task :
    /\ \A f, g \in s.status[t] \cap {"DELAY", "PEND", "PEND_QUEUE"} : f = g
    /\ "READY" \in s.status[t] => s.status[t] \cap (Blocked \cup {"UNUSED"}) = {}
    /\ "UNUSED" \in s.status[t] => s.status[t] = {"UNUSED"}

\* On the sort link are the delayed tasks and the tasks pending with a timeout.
TimerAgrees(s) ==
  \A t \in Task :
    /\ s.timer[t] > 0 <=>
         \/ "DELAY" \in s.status[t]
         \/ "TIMEOUT" \in s.status[t] /\ s.status[t] \cap {"PEND", "PEND_QUEUE"} # {}
    /\ t \in s.due => s.timer[t] = 1

\* Every task control block is on exactly the lists its status says: each interleaving
\* of calls, expiries and interrupts leaves the shared stPendList node where it belongs.
ListsAgree ==
  /\ NodeLinkedOnce(os) /\ ReadyListAgrees(os) /\ WaitListAgrees(os)
  /\ StatusExclusive(os) /\ TimerAgrees(os)

\* No list operation is applied to a node that is on no list: LOS_ListDelete would
\* write through the NULL links it left there the first time.
NoWildList == ~os.wild

\* Whenever no call is about to reschedule, no switch is pending and the scheduler is not
\* locked, the running task is the first task of the highest non-empty priority (los_hw.c:
\* "In case that running is not highest then reschedule"): no call, interrupt or expiry
\* forgets to reschedule.
HighestReadyRuns ==
  /\ os.scheduled /\ os.lock = 0
  /\ ~os.pendSV /\ ~os.needSchedule /\ os.run \notin os.resched
  => os.run = osPriqueueTop(os)

\* A pending switch goes to the task that is first now, whatever came between the
\* request and the switch.
SwitchTargetFresh ==
  os.pendSV /\ ~os.needSchedule => os.new = osPriqueueTop(os)

\* The CPU is never taken from a task that holds the task lock.
NoSwitchWhileLocked ==
  [][os.scheduled /\ os.lock > 0 => os'.run = os.run \/ os'.lock = 0]_os

----------------------------------------------------------------------------
\* Fairness.  The tick and the switch are exceptions of the lowest priority: they are
\* delayed by device interrupts, but the interrupt load leaves them some time.
InterruptFairness ==
  /\ WF_os(LOS_StartToRun)
  /\ WF_os(osInterruptExit)
  /\ SF_os(TaskReschedule)
  /\ SF_os(osPendSV)
  /\ SF_os(osTickHandler)
  /\ SF_os(\E t \in Task : osTaskScanNext(t))
  /\ SF_os(osTaskScanEnd)

FairSpec == Spec /\ InterruptFairness

\* Every delay and every timed wait ends.
DelayEnds == \A t \in User : os.timer[t] > 0 ~> os.timer[t] = 0

TopPriority(t) ==
  /\ "READY" \in os.status[t]
  /\ \A u \in Task : "READY" \in os.status[u] => os.prio[t] <= os.prio[u]

\* Round robin: a task that stays ready at the highest priority gets the CPU again and
\* again, as long as nobody keeps the scheduler locked for ever or goes on setting
\* priorities, which sends a task behind its equals.
RoundRobin ==
  \A t \in User :
    /\ <>[]TopPriority(t) /\ []<>(os.lock = 0)
    /\ <>[][\A u \in Task, p \in PriSetArg : ~LOS_TaskPriSet(u, p)]_os
    => []<>(os.run = t)
=============================================================================
