# Huawei LiteOS: models, model checks and proofs

This directory holds TLA+ models of the core of the Huawei LiteOS kernel under
`src/Huawei_LiteOS/kernel` and of the LwM2M client (the LwM2M core and AgentTiny under
`src/Huawei_LiteOS/components/connectivity`), TLC configurations that check them on small
instances, and TLAPS proofs of the main invariants of the scheduler, the task and software
timers, the semaphores, the mutexes, the message and mail queues, the events, the
registration of the LwM2M client and the reports of AgentTiny for every number of tasks,
priorities, ticks, timers, permits, mutexes, nodes, mail blocks, flags, retransmissions,
mishaps and reports, and that the timers, the semaphores, the mutexes, the queues, the events
and the reports implement their abstract services. `PROJECT.json` maps every
definition to the lines it models and lists the runs, the mutants, the hazards, the findings
and the theorems.

## 1. The system

LiteOS is a preemptive priority kernel for one Cortex-M core. Its parts, their state and
how they meet:

| part | state | operations | meets |
|---|---|---|---|
| tasks and scheduler (`los_task.c`, `los_priqueue.c`, `los_timeslice.c`, `los_tick.c`) | task control blocks (status word, priority, one list node, one timer node), ready list per priority, free and recycle list, `g_stLosTask.pstRunTask/pstNewTask`, `g_usLosTaskLock`, time slice | create, resume, suspend, delete, delay, yield, set priority, lock, unlock, tick | everything below calls `osTaskWait`, `osTaskWake`, `LOS_Schedule` |
| context switch and interrupts (`arch/arm/cortex-m4`) | pending PendSV, active exception | `LOS_Schedule`, `osPendSV`, `osInterrupt` | `pstNewTask` is chosen in a call and used in PendSV, later |
| task timers (`osTaskAdd2TimerList`, `osTimerListDelete`, `osTaskScan`) | wheel of 32 lists, cursor, relative roll numbers | add, delete, scan | the scan wakes waiting tasks against their posters |
| semaphores, mutexes, queues, mail, events (`kernel/base/ipc`) | control blocks, wait lists made of the task nodes | create, delete, pend, post, read, write, allocate, free | tasks, interrupts, tick |
| software timers (`los_swtmr.c`) | delta list, free list, handler queue | create, start, stop, delete, scan | tick (producer), timer task (consumer) through a message queue |
| memory (`kernel/base/mem`) | best-fit heap, memory boxes, slabs | alloc, free, realloc | task stacks, queue buffers, mail |
| CMSIS layer (`kernel/compat`) | none of its own worth a model | wrappers | kernel services |
| LwM2M core (`components/connectivity/lwm2m/core`) | transactions, the client's state and registration, observed resources and their watchers | `lwm2m_step` (register, update, notify, retransmit), `lwm2m_handle_packet`, `lwm2m_close` | the server through a CoAP network; callbacks into AgentTiny |
| AgentTiny (`components/connectivity/agent_tiny`) | list of reports, its lock and counter | `atiny_bind` (the agent task), `atiny_data_report` (any task), callbacks | the list is shared between tasks; the core reads it through the object |

What is hard in this code:

* one list node per task serves the ready lists, all wait lists, the free and the recycle
  list, so the status word and the lists have to agree after every interleaving of
  suspend, resume, wake, expiry and deletion;
* the switch is asked for in one place and done in another: between them interrupts change
  which task is first;
* every pend function continues after its wait from the status word alone (`TIMEOUT` set or
  not), long after the poster or the tick has decided;
* the scan of the timer wheel runs with interrupts enabled;
* hand-over: permits, mutexes, queue nodes and mail blocks are given to a waiting task
  before that task runs, and must not be lost or given twice;
* recursive mutexes with priority inheritance and nested critical sections;
* software timers whose expiry is queued without waiting, and is stale when it is handled;
* a reader of events that polls a second time when it runs again;
* CoAP: an answer that is lost, late, doubled or comes in two parts, against retransmission
  and time-outs; updates of the registration that overlap; a server that forgets;
* reports that tasks put in while the agent task sends, clears and cancels, with callbacks
  called under the lock of the list.

The properties that make each part correct are those of section 4; `hazards` in
`PROJECT.json` lists the places, with the reason where no property covers one yet.
Vendored code (lwIP, mbed TLS, er-coap), drivers, board targets, tests and examples are
left aside.

## 2. The modules

```
LosTask ---- LosIpc ---+-- LosSem   --> Semaphore      (--> implements)
   |                   +-- LosMux   --> Mutex
   |                   +-- LosQueue --> BoundedQueue
   |                   |      +-- LosMail
   |                   +-- LosEvent --> EventFlags
   +-- LosTaskProofs (and LosIpc) -+- LosSemProofs   (proofs)
                                   +- LosMuxProofs
                                   +- LosQueueProofs (and mail)
                                   +- LosEventProofs
DeltaList -+- TimerWheel --> Countdown     \
           +- LosSwtmr   --> TimerService  / TimerProofs
CoapTransaction -+- Lwm2mClient -- Lwm2mProofs
                 +- AtinyReport --> ReportService
                        +- AtinyReportProofs
```

**LosTask** holds the kernel state in one record `os`: `status` is `usTaskStatus` as a set
of flags, `list` gives for every list head (the ready list of each priority, the wait lists,
the free and the recycle list) the sequence of tasks whose `stPendList` node is on it,
`timer` the ticks a task still has on the sort link, `run` and `new` are `pstRunTask` and
`pstNewTask`, `lock` is `g_usLosTaskLock`. Each C function that runs under `LOS_IntLock` is
an operator from kernel states to kernel states (`osTaskWake`, `Enqueue`,
`osTaskPriModify`, `LOS_Schedule`, ...), composed as the C code composes the calls; each API
entry point, exception handler and interrupt step is one action. The points at which the
CPU can go elsewhere are kept:

* `TaskContext`: the running task calls the kernel; no exception is pending or active.
* `resched`: the task has released the interrupt lock and is about to call `LOS_Schedule`
  (`TaskReschedule`). Interrupts, the tick and a switch fit in between. A handler that calls
  `LOS_Schedule` itself does so within its step.
* `pendSV`, `irq`, `scan`: the switch, a device interrupt handler and the loop of
  `osTaskScan` are active or pending. The switch and the tick have the lowest exception
  priority, so a device interrupt comes before the switch and between two iterations of the
  scan; device interrupts do not nest.
* `Dummy` is the extra block at the end of `g_pstTaskCBArray` that stands for the running
  task after it has been deleted.
* `wild` records that a list operation was applied to a node that is on no list, which in
  the code follows the NULL links `LOS_ListDelete` leaves. Nothing is said of what follows:
  the behaviour ends there. That is why the IPC runs switch deadlock checking off.
* `due`: the tasks that expire in the current tick, in any order; `TimerWheel` justifies it.

**LosIpc** adds `call[t]`, the pend function task `t` is inside of: a task that has blocked
starts no other call and goes on in that function when it runs again.
**LosSem, LosMux, LosQueue, LosMail, LosEvent** add the control blocks. Each pend function is
three actions: it can take at once (`SemTake`, `MuxLock`, `QueueTake`, ...), it blocks
(`...Wait`), it goes on after the wait (`...Return`). In `LosQueue` a read leaves `NoMsg` in
the node although the code leaves the old bytes: that copy is dead, and a second read of it
would show as a message nobody wrote. The memory box under a mail queue is a set of free
blocks: `osQueueMailAlloc` and `osQueueMailFree` are given the queue and its pool together
(`cmsis_liteos1.c` keeps both in one control block), so `MailPool[q]` is the blocks of queue
`q`, and `pool` those of all queues that are free. **Semaphore, Mutex, BoundedQueue, EventFlags** say what the services promise, without tasks'
status words, lists or scheduling: permits and mutexes go to waiters first come first
served, a wait ends with the object or with an error, a queue is a sequence. Semaphore chooses
the number of permits in `Open` only, which an unused semaphore allows; from then to `Close` each
permit taken at once or put back moves `avail` and `taken` by one. `taken` is a history
variable of LosSem as well (`los_sem.c` has no such field): it counts the calls of
`LOS_SemPend` that got a permit at once less the posts nobody waited for, so that a call that
takes and leaves the count, or a post that counts twice, is no step of Semaphore. What the other
abstract services leave open: BoundedQueue lets any write choose its end (`BoundedQueue!Write`), as
`LOS_QueueWrite` and `LOS_QueueWriteHead` do, so a write to the wrong end refines it; in
EventFlags a reader that was freed may leave without its flags (`Vanish`), which
stands for its deletion.
**DeltaList** is what the two kinds of timers have in common: a list in the order of expiry in
which each count is relative to the timer before it, the time to the expiry of the k-th timer
(`Until`) and the place of a new one (`PlaceFor`).
**TimerWheel** is the sort link itself with its cursor, lists and relative roll numbers;
**Countdown** is a counter of ticks per task, in the form `timer` and `due` have in LosTask.
**LosSwtmr** is `los_swtmr.c`: the blocks, the list of running timers with relative counts,
the free list, and blocks `LOS_SwtmrCreate` has taken and not yet filled in (`creating`: it
takes the block under the interrupt lock and fills it in without it, so ticks fit between).
`expiring` holds off everything but the loop of `osSwTmrTimeoutHandle`, one iteration a step,
since no task runs before the tick has ended. The handler queue is a bounded sequence, which
`LosQueue` justifies; each message stands for the handler and argument of its timer's block.
**TimerService** has a plain count of the ticks left for each running timer.

**CoapTransaction** is `transaction.c`: what one transaction record becomes when it is sent,
when a second passes and when a message arrives, as operators on records. `transactionList`
is the set of its transactions: they differ in their mIDs, the one that takes a message is
found by its mID or token, and those that end in one walk of the list call back one after
the other to the same effect (`Unanswered`, `Tell`), so nothing depends on the order of the
list. Times are seconds from now, so waiting does not grow the state.
**Lwm2mClient** puts these transactions under the registration: the two state machines
(`client.state` of `lwm2m_step`, `client.status` of the server entry), the callbacks of the
three requests, and one step per call of `lwm2m_step` and of `lwm2m_handle_packet`, which
both run in the agent task. The network is two sets of messages, out of which any may be
taken, lost or left to be taken again; a request carries the seconds it has been under way
(`age`, which the code does not have: it is how the model bounds its delay). The server is what `registration.c` expects of an
LwM2M server: it answers a repeated message as it did the first time (RFC 7252), keeps one
registration and its location, and answers with the acknowledgement or apart from it.
**AtinyReport** is the way of a report: `rpt_list` with its counter, the observed resource
of the application and one other, the transactions of the notifications, and `told`, the
outcome each callback was given. `pc` is where the loop of `atiny_bind` is: in `observe` it
takes reports one at a time (an application task may add one between two turns of
`observe_app_step`), then sends what is due and goes to `poll`, where it takes one message
or none. `stuck` is the agent inside a callback that waits for the lock the agent holds
(`atiny_mutex_lock` is a binary semaphore on LiteOS, `osadapter/atiny_adapter.c`). Every report
has a callback: one without goes out as a message that is not acknowledged (`observe.c:547-558`),
has no transaction and no outcome. That `atiny_data_report` refuses a report until the client is
registered (`agenttiny.c:353`) is left out, so the model takes more reports than the code.
**ReportService** says what the application is promised: first in, first out, one outcome.

**MC...** modules only fix constants; **LosTaskProofs** (with what LosIpc does to the
kernel), **LosSemProofs**, **LosMuxProofs**, **LosQueueProofs** (with the mail queues),
**LosEventProofs**, **TimerProofs**, **Lwm2mProofs** and **AtinyReportProofs** hold the proofs (section 5). Operators marked
"Seeded fault" are not used by any specification: each is a plausible bug of the
definition it stands next to, and a property must be violated when it takes its place.

## 3. Assumptions on the environment

* A call is made where the code permits it (its guards are the code's checks); calls that
  return an error before they change state are steps that change nothing and are left out.
* Interrupt handlers resume and delete tasks, post, take without waiting, read, write and
  free, write and clear events. They call `LOS_TaskSuspend` only with `IsrSuspends`, which is
  FALSE in every run: `LOS_TaskSuspend` chooses `pstNewTask` again only for the running task,
  so a handler that suspends the task a pending switch goes to lets it run all the same.
* The idle task (and in the LosMux and LosQueue runs the task `t1`, protected as `swtmr` is)
  is not suspended or deleted: `SysTask`, the tasks `CHECK_TASKID` names.
* `LosMux`: nobody deletes a task that owns a mutex (`los_task.h:620` warns against it), and
  with `Ordered` a task nests its mutexes and releases them in the reverse order.
* `LosQueue`, `LosMail`: a task is not deleted between its wake and its turn (`MayDelete`).
  The code loses the node or the block of such a task; this is listed as a hazard.
* `LosMail`: nobody waits for mail under the task lock unless `LockedAllocs` (section 4).
* `LosSwtmr`: timers are started, stopped and deleted by tasks (the timer task included), not
  by interrupt handlers.
* `LOS_TaskCreate` is one step, stack allocation fails or not by choice.
* `LosEvent`: an event is set up once and not destroyed (`LOS_EventDestory` does not look at
  the tasks that wait).
* `Lwm2mClient`: one server, as AgentTiny configures; the messages of an older life of the
  client have left the network before it starts again (`Reboot`, `lwm2m_close`), and a mID is
  not used again while a message with it is under way, which 16 bits of mID and the lifetime
  of a CoAP message give; the server's registration does not expire while messages are under
  way. `lwm2m_gettime` does not fail, nor does `lwm2m_buffer_send` return a negative value, which
  AgentTiny's `connection.c` never does: the paths of TRANS_SENT_FAIL are left out.
  Every request arrives or is lost within `MaxLife` seconds, each copy counted from its own
  sending; an answer may take any time.
* `AtinyReport`: the application ends the agent from its own task and does not report after
  it (`atiny_destory_rpt` works without the lock); an identity in `Report` is used again when
  nothing refers to it.

## 4. The runs

All bounds are constants of the modules. Passing runs finish in half a minute to three minutes. One
type invariant per module is a conjunct of an invariant that needs it (`WaitsForOwner`,
`NodesAddUp`, `BlocksInOnePlace`, `NobodyMissesEvents`, `IndexAgrees`, `BlocksAgree`,
`PendingIsServed`) or is checked by its own name.

| run | instance | what it shows |
|---|---|---|
| LosTask | 2 tasks besides idle, 2 priorities they may change between, delays of 1-2 ticks, slices of 2 ticks, one level of task lock, all services, tick and interrupts | `ListsAgree`, `NoWildList`, `HighestReadyRuns`, `SwitchTargetFresh`, `NoSwitchWhileLocked`; `DelayEnds`, `RoundRobin` under `FairSpec` |
| LosSem | 2 tasks and an interrupt handler, one semaphore, counts up to 2, timed and endless waits | lists stay right with waits; `NoIdlePermit`, `WaitsWhereItCalled`; implements `Semaphore`: permits are handed over in arrival order, and between creation and deletion none is lost or made up |
| LosMux | 2 tasks, 2 mutexes, nesting 2, timed waits, nested locking | `WaitsForOwner`, `PriorityRestored`; implements `Mutex` |
| LosQueue | 2 tasks and an interrupt handler, queue of 2 nodes, 2 messages | `NodesAddUp`, `NobodyWaitsInVain`, `WokenOnLiveQueue`; implements `BoundedQueue` |
| LosMail | 2 tasks and an interrupt handler, two mail queues with pools of 2 and of 1 block, task lock | `BlocksInOnePlace`, `MailNeverNull` |
| TimerWheel | 3 tasks, 4 slots, timeouts of 1-9 ticks | `IndexAgrees`; implements `Countdown`, that is every timer expires in exactly its tick |
| LosSwtmr | 2 timers with 2 identifiers each, intervals of 1 and 3 ticks, all modes, queue of 2 | `BlocksAgree`, `ExpiryKept`; implements `TimerService`, that is a timer expires exactly its interval after its start |
| LosEvent | 2 tasks and an interrupt handler, one event of 2 flags, reads of one, of both and of any, with and without clearing | `NobodyMissesEvents`; implements `EventFlags`: a write lets exactly the readers go that it satisfies |
| Lwm2mClient | 3 retransmissions as of 1 second, 3 mIDs, 4 locations, 2 mishaps (loss, doubling, a second's delay, broken link, refusal, restart, stop, change of objects) in any mixture, requests at most 2 seconds under way, beside a server that may forget | `PendingIsServed`, `SameRegistration`; `Recovers` under `FairSpec` |
| AtinyReport | 3 reports, a line of 2, no retransmission, one message under way | `EachInOnePlace`, `CancelConcludesReports`, `SuccessIsAcknowledged`; implements `ReportService`; `SentConcluded`, `ObservedDrains` under `FairSpec` |

Why these bounds are enough for the interesting cases: two application tasks and idle give
a running, a waiting and a preempted task, of equal or different priorities in LosTask,
whose safety properties are proved for any number of tasks. One tick of timeout already races
an expiry against a post, since ticks may come at any point; two distinguish "expires now"
from "later". Slices are of one tick but in LosTask, so that the check of the slice comes in every
tick. A queue of two nodes is empty, half full and full, wraps in both directions
and has reserved and counted nodes side by side. Two mail queues, one with a block to spare, let
blocks of one be freed while the other runs dry. Nine ticks on four slots cover two full
turns, the multiples of the wheel size and one more, so a slot holds nodes with equal,
smaller and larger roll numbers. The messages of the queue run and the tasks of the wheel
run are interchangeable, so symmetry is used there (no liveness is checked in either). Two
software timers on intervals 1 and 3 meet in every order on the delta list: each before,
behind and in the same tick as the other, with a periodic one expiring while the other
waits; the handler queue has a place for each timer as in every target, and is full when
the timer task is late. Longer lists differ only in what is before the place of insertion,
whose counts are summed up. The events of the event run are read by two tasks in all modes,
so that one write satisfies none, one or both, and the first reader may clear what the second
polls for. Two mishaps in the client run are what its hard behaviours take: a lost answer and
a forgotten registration, a doubled answer across a restart, a change of the objects during
an update and a loss of one of the answers; three retransmissions give more sends than
mishaps. A second that passes with a message under way is a mishap, so no request of this run gets
older than `MaxLife` = 2 anyway. COAP_MAX_TRANSMIT_WAIT is computed from the two timing constants as in
`er-coap-13.h`. The report run has a report in the line behind one that is being sent, a
full line, and a third report refused or taken when one has gone; retransmission of a
notification differs from that of a request only in its end, and one transmission reaches
it. The liveness properties follow one report, since reports are compared for equality only.

What the bounds leave to the proofs: with two application tasks one of which owns the mutex, no
mutex of the LosMux run has two waiters, so their arrival order rests on `MuxImplements`; with one semaphore
`WaitsWhereItCalled` cannot confuse two of them, which rests on `SemWaitsWhereItCalled`. The
LosTask run has no wait lists, so `DelayEnds` is about delays; that a timed wait ends is not
checked as liveness.

Runs that are expected to fail (each states what a comment says):

1. **LosMailLocked** (`MailNeverNull`): `osQueueMailAlloc` does not look at the task lock
   before it blocks; under the lock the task goes on with a NULL block, where the comment says
   it "can not be NULL".
2. **Lwm2mEnds** (`TransactionEnds`): a request whose retransmissions are used up is given the
   status TRANS_SENT_TIME_OUT some time before its response is overdue, is therefore kept, and
   is never looked at again: its callback is not called at all, neither for "the result" nor
   for "a timeout". `Recovers` has to except this case (`Abandoned`).

Other behaviours of the code that the models have and that a reader should know of: a mutex goes to the task that waits longest and the new owner does not
inherit from more urgent tasks that stay on the list (`los_mux.c:312-321`); a release without
waiters that lowers an inherited priority does not reschedule (`los_mux.c:326-331`), so
`HighestReadyRuns` is not a property of LosMux; a report read while the observation has no
active watcher is dropped without its callback; cancelling an observation ends the first one in
the list, whatever the request names (`observe.c:228-231`); at the end of the agent, reports
that were sent and not acknowledged get no outcome (`lwm2m_close` frees transactions without
their callbacks); a callback that reports again while the list is cleared locks up the agent.

**Fairness.** In LosTask, `InterruptFairness` asks nothing of the application: no task has to
call anything. The end of an interrupt handler and the start of the first task are weakly
fair. The switch, the call of `LOS_Schedule` a task is about to make, the tick and the steps
of its scan can be put off by device interrupts again and again, so they are enabled again
and again rather than always: they are strongly fair, which says that the interrupt load
leaves the lowest exception priority some time, as SysTick and PendSV need in any working
system. `RoundRobin` excludes tasks that lock the scheduler for ever and priorities that are
changed for ever. In Lwm2mClient one step of the agent task, the clock or an arrival is always
taken while there is one (weak fairness of their disjunction; the finite number of mishaps
does the rest): the agent task loops for ever, time passes and the network delivers what it
does not lose. In AtinyReport the loop of the agent task and the clock are weakly fair, the
network owes nothing; `SentConcluded` has the premise `Paced`, that application tasks do not
report faster than the loop of `observe_app_step` sends for ever.

## 5. What is proved

For every value of the constants that satisfies the assumptions of the modules, and
`IsrSuspends = FALSE`:

| module | theorem | statement |
|---|---|---|
| LosTaskProofs | TypeCorrect | `Spec => []TypeOK` |
| | ListsAlwaysAgree | `Spec => []ListsAgree` |
| | ListsNeverWild | `Spec => []NoWildList` |
| | HighestAlwaysRuns | `Spec => []HighestReadyRuns` |
| | SwitchTargetAlwaysFresh | `Spec => []SwitchTargetFresh` |
| | LockKeepsCpu | `Spec => NoSwitchWhileLocked` |
| LosSemProofs | SemTypeCorrect | `SemSpec => []SemTypeOK` |
| | SemListsAgree | `SemSpec => []ListsAgree` |
| | SemWaitsWhereItCalled | `SemSpec => []WaitsWhereItCalled` |
| | SemNoIdlePermit | `SemSpec => []NoIdlePermit` |
| | SemHighestRuns | `SemSpec => []HighestReadyRuns` |
| | SemImplements | `SemSpec => ImplementsSemaphore`: the refinement of Semaphore |
| LosMuxProofs | MuxListsAgree | `MuxSpec => []ListsAgree` |
| | MuxWaitsForOwner | `MuxSpec => []WaitsForOwner` (with `MuxTypeOK`) |
| | MuxPriorityRestored | `MuxSpec => []PriorityRestored`, if `Ordered` and `PriSetArg = {}` |
| | MuxImplements | `MuxSpec => ImplementsMutex`: the refinement of Mutex |
| LosQueueProofs | QueueNodesAddUp | `QueueSpec => []NodesAddUp` (with `QueueTypeOK`) |
| | QueueNobodyWaitsInVain | `QueueSpec => []NobodyWaitsInVain` |
| | QueueWokenOnLive | `QueueSpec => []WokenOnLiveQueue` |
| | QueueListsAgree | `QueueSpec => []ListsAgree` |
| | QueueImplements | `QueueSpec => ImplementsQueue`: the refinement of BoundedQueue |
| | MailBlocksInOnePlace | `MailSpec => []BlocksInOnePlace` (with `MailTypeOK`), if `~LockedAllocs` |
| | MailIsThere | `MailSpec => []MailNeverNull`, if `~LockedAllocs` |
| | MailImplementsQueue | `MailSpec => ImplementsQueue`, if `~LockedAllocs`: the queues still refine BoundedQueue |
| LosEventProofs | EventNobodyMisses | `EventSpec => []NobodyMissesEvents` (with `EventTypeOK`) |
| | EventListsAgree | `EventSpec => []ListsAgree` |
| | EventHighestRuns | `EventSpec => []HighestReadyRuns` |
| | EventsImplement | `EventSpec => ImplementsEvents`: the refinement of EventFlags |
| TimerProofs | WheelIndexAgrees | `Spec => []IndexAgrees` (TimerWheel) |
| | WheelImplementsCountdown | `Spec => ImplementsCountdown`: the refinement of Countdown |
| | SwtmrBlocksAgree | `SwtmrSpec => []BlocksAgree` |
| | SwtmrImplementsTimers | `SwtmrSpec => ImplementsTimers`: the refinement of TimerService |
| | SwtmrExpiryKept | `SwtmrSpec => ExpiryKept`, if `QueueSize >= LIMIT` |
| Lwm2mProofs | PendingServed | `Spec => []PendingIsServed` |
| | RegistrationShared | `Timely => (Spec => []SameRegistration)` |
| AtinyReportProofs | ReportsInOnePlace | `Spec => []EachInOnePlace` |
| | ReportsImplement | `Spec => ImplementsReports`: the refinement of ReportService |
| | CancellationConcludes | `Spec => CancelConcludesReports` |
| | SuccessAcknowledged | `Spec => SuccessIsAcknowledged` |

**The kernel.** None of its properties is inductive. The inductive invariant (`Invariance`)
is `Inv(s) == Core(s) /\ Highest(s) /\ Quiet(s)` with
`Core(s) == Consistent(s) /\ Control(s) /\ Current(s)`:

* `Consistent`: the types; no list has a task twice and no task is on two lists
  (`WellLinked`); for each task its status, lists, priority and timer agree (`TaskAgrees`);
  the idle task is ready at the lowest priority (`IdleStays`), without which
  `osPriqueueTop` would search empty lists.
* `Control`: the flags of the scheduler. Exactly the running task has `RUNNING`; a deleted
  running task means a pending switch; while the task lock is held no switch is pending and
  the running task is ready. The last part is what makes `NoSwitchWhileLocked` go through.
* `Current`: a pending switch goes to the first task; with none pending and nobody about to
  reschedule, the running task is ready. This is where `~IsrSuspends` is needed.
* `Highest`: with none pending and nobody about to reschedule, the first task runs.
* `Quiet`: without IPC calls no task waits, so deletion never meets a timer that has
  expired already, and no list operation is wild.

The argument works on lists as sets: lemmas on `Unlink`, `Enqueue`, `Dequeue` say what each
list function does to the elements; `osPriqueueTop` depends on the ready lists only and
returns the head of the highest (its existence uses the least element of a set of
naturals); then one lemma per operator (`osTaskPriModify`, `TimerExpire`, `DeleteTask`, ...)
and one per action show that the parts are kept.

**Under the IPC services** tasks do wait, and `Quiet` no longer holds. The lemmas of the
kernel's actions are therefore stated with `Steady(s, r)`: a step that keeps `Core`, and
`Highest` and `Quiet` if they held, and that lets waiting only end (`Eases`): no task comes to a wait list
and none gets a flag of a wait that it did not have. The kernel's own steps are steady
whoever waits (`KernelStepSteady`, `DeleteStepSteady`), so one proof of the scheduler
serves every service above it. The last part of **LosTaskProofs** says what `osTaskWait`, `osTaskWake` and
the return from a wait do besides. **LosSemProofs** puts the inductive
invariant together, `SemInv == Core(os) /\ Highest(os) /\ Waiters /\ Blocks /\ NoIdlePermit`: `Waiters` is
that a task waits, or carries `TIMEOUT`, only inside the call that brought it there;
`Blocks` that the free list names each unused block once and no count exceeds its maximum.
`NoIdlePermit` needs that a kernel step cannot put a task on a wait list, which is
`Eases`, and that `LOS_SemDelete` refuses while somebody waits, which is the guard the
seeded fault `SemDeleteAnyway` drops.

`SemImplements` needs the order of the wait lists besides their elements, for waiters are
served first come first served. A kernel step leaves every wait list as it is, or takes one
task out of its list without moving the others (`Leaves`), and then that task's wait has
expired (`KernelStepViews`). So a kernel step is a stutter or the abstract expiry of one
waiter, and the calls of the service map to the abstract operations: creation to `Open`, which
needs that the block was unused (`Blocks`), deletion to `Close` (`CloseStep`), a take and a post
to the step that moves the count and `taken` together (`CountMoves`; a semaphore in use has a
positive limit, `InUse`), and every other step leaves both alone (`PermitsSame`).

**The mutexes** are where `Core` as it stands is not kept: a release that nobody waits for
gives the caller its old priority back and does not reschedule (`los_mux.c:326-331`), so from
then on the first ready task need not run. That is why `Highest` is apart from `Core`: the
scheduler and the semaphores prove it besides, the mutexes, the queues and mail do without,
and the lemmas on the kernel's steps serve both.
`MuxInv == Core(os) /\ Waiters /\ Blocks /\ Owned /\ Waited /\ Granted`: `Owned` is that a
mutex with a count is owned by a living application task, `Waited` that only a used and owned
mutex has waiters, its owner not among them, `Granted` that a wait that ended otherwise than
by expiry ended with ownership. `Granted` is what lets the task that returns
from its wait claim the mutex from its status word alone, and what `MuxImplements` rests on;
it holds since `LOS_MuxPost` writes owner and count in the step that wakes. Raising and
lowering a priority moves a ready task between ready lists and nothing else; `Lifted(s, r)`
says that, and with it every lemma on blocking and waking is used on the lifted state.
`PriorityRestored` is not a matter of one mutex: `Based` says that the priority saved with
the outermost mutex a task holds, or its own if it holds none, is one it was created with, `InOrder`
that a task waits only for a mutex that comes after those it holds, and both are kept
together (`KeepsPrio`, `KernelStepPrio`: of the kernel's own steps only the creation of a
task gives a priority). It
takes `Ordered`, without which it is false (a hazard in `PROJECT.json`), and that no task
sets a priority itself (`PriSetArg = {}`, as in the run): `LOS_TaskPriSet` under an
inherited priority is undone by the release. Both were checked on the run first, together
with `MuxInv`, in all its 716,965 states.

**The queues** need more: a node that was handed to a waiting task belongs to nobody's count
until that task runs, so that `NodesAddUp` counts tasks (`Reserved`), and a kernel step must
not change who is woken. `KernelStepWaits` says so: no step of the kernel ends a wait but the
expiry, and then `TIMEOUT` tells. `QueueInv` is `Core`, `Waiters` and `Blocks` as above,
`Sums(q)` for every queue in use, `NobodyWaitsInVain` and `WokenOnLiveQueue`; the last three
hang together: `LOS_QueueDelete` looks at the counts and the wait lists only, and it is
`Sums` that turns "the counts add up to the length" into "no node is reserved", which keeps
`WokenOnLiveQueue`, which in turn lets the task that goes on in `osQueueOperate` find its
ring. One lemma (`OperateStep`) serves the call that takes a node at once and the one that
goes on after its wait: `Takes` says what the two have in common. Lemmas on arithmetic modulo
the length (`RingRead`, `RingWriteTail`, `RingWriteHead`, `RingPlaces`) show that a read
removes the first message of the ring and a write adds one at the back or at the front, and
nothing else moves (`ReadTakesFirst`, `WriteTailAppends`, `WriteHeadPrepends`); with them
every step maps to a step of BoundedQueue or to none, which is `QueueImplements`. The proofs
use that no application deletes a task that was woken in a queue call (`MayDelete`, section 3)
and that the wait lists of different queues and sides are different lists (`QueueAssumption`).

**The mail queues** have a third wait list in the same control blocks, so nothing said of the
queues may rest on every waiting task being a reader or a writer: `Waiters` of QueueInv
speaks of the lists of readers and writers only. `QueuesCalm` says that a step that brings
nobody to those lists and leaves the tasks in queue calls alone keeps QueueInv, `MailBeside`
that a step that does the same for mail keeps the parts below.
Then `MailInv` is QueueInv with `MailWaiters` (who is on a mail list is inside `osQueueMailAlloc`
of that queue), `MailBlocks` (a promised block is promised once and is not free),
`PoolEmpty` (nobody waits while the pool of its queue has a block) and `Handed` (a task whose wait has ended
otherwise than by expiry was given a block of the pool it asked). `MailIsThere` is the sentence
of `los_queue.c:562-563` for every configuration in which nobody waits under the task lock;
the run LosMailLocked shows that it is false without that. `MailImplementsQueue` says that the queues
keep their promise beside mail; the LosMail run has no messages, so this is proved and, with
mail, not model-checked.

**The events** wake any number of tasks in one step, the walk of `LOS_EventWrite` along its
list. `WakeAll` is that walk, a recursive function over the places of the list; its value is
known after each place by induction (`UpTo`, from the least counterexample), and `WakeAllFacts`
says what it leaves: each task of the set was woken once (`Wakes`), the others are where they
were, and the next one of the list is still on it when its turn comes. `WakesSteady` is the reschedule:
however many tasks became ready, one choice after the walk makes the first of all of them
run, so `Highest` is kept (`ListsAgree` and `HighestReadyRuns` are proved of the events and checked
by the other kernel runs). `EventInv == Core(os) /\ Highest(os) /\ Waiters /\ Patient` with
the type of the flags: `Waiters` as for semaphores, `Patient` that the flags a waiting task
asks for are not set. A take, a clear or the second poll of a woken reader only removes
flags, and a poll finds no more in fewer flags (`FewerFlags`); a write adds flags, and
`SatisfiedIs` shows that the condition in the code, which looks at the new flags for a reader
of any and at the word for a reader of all, is then the same as "a poll would now find
something". That equivalence itself needs `Patient`: it would fail for a reader of any that waited
beside a set flag. It would fail too for a reader of
all of no flags, whom every write wakes and who finds nothing; `LOS_EventRead` refuses an
empty mask, which is the part of `EventAssumption` on masks. Since
EventFlags keeps no order among the readers, the refinement needs no order of the lists.

**The timers.** Both kinds are lists of counts relative to the timer before, and `Until` sums
them up along the list by a recursive function. Facts about such a sum need induction over
the places of the list; it is done by the least counterexample (`LeastNumber`, `UpTo`: if 0 is
in a set of places and each place in it is followed by one in it, all are), which gives the
defining equations of the sum (`UntilIs`), that it grows (`UntilNat`), that a function with
the same equations is the sum (`UntilUnique`), and that `PlaceFor` counts an initial piece of
the list (`PlaceForIs`). From these follow the four facts on a list that the code's
operations are about: inserting a timer and correcting the one behind it, removing one and
adding its count to the next, and dropping a first timer without count all leave the time of
every other timer as it was (`InsertKeepsTimes`, `RemoveKeepsTimes`, `TailKeepsTimes`), and
one less in the first count is one less for everybody (`HeadCountsAll`).
For the wheel, `TicksIs` turns the slots and turns into ticks, and one lemma per action shows
the step of Countdown it maps to. `WheelInv` is `IndexAgrees` with `TurnsBounded`, that no timer
has more turns to go than the longest timeout has: otherwise the sum of a node and the deleted
one before it could leave the type. For the software timers, `SwtmrInv` is `BlocksAgree`, that
a block in use has an interval of the application (a periodic timer is started again from it), and
that between two ticks every running timer has a tick to go (else the tick would count below
zero, which the code does not look for; a start puts the new timer behind those that are due
earlier, so the first one is never at zero outside the loop of `osSwTmrTimeoutHandle`).
`SwtmrExpiryKept` is the pigeonhole: a full queue of at least `LIMIT` messages without one of
this timer holds two of another (`TwoUnhandled`).

**The registration.** `PendingIsServed` is a matter of the client alone. Its inductive
invariant, `ClientInv` inside `TypeInv`, says that no two transactions have the same mID, that
there is a transaction of a registration exactly when the status is REG_PENDING, and one of an
update when it is REG_UPDATE_PENDING; it holds under every network and server.
`SameRegistration` is not: it is about messages that are under way and about what the server
remembers. `RegInv` relates the four (`Reg(c, rq, an, srv, tr)`: client, requests, answers,
server, mishaps left), so that the steps of one partner can be proved on a state of which the
others are parameters: a mID stands for one kind of request (`OneKind`); what the server
remembers can still be repeated (`Recalls`); a registration under way is one the client waits
for or the server has decided (`Decided`); an answer for a waiting registration was decided
(`Answered`), and if it says 2.01 it names the registration the server has (`Accepted`); a
deregistration under way does not name a registration the client uses or is about to use
(`Leaving`). `Same` is the property with what it needs of the requests. `InTime` is the clock: a transaction
that has sent its last copy and still has a request under way has at least `Silence - MaxLag`
seconds to go, less the age of that request: the copy that was sent last has age zero when the wait
begins, older ones have more, and a second takes one from the wait and adds one to each age
(`InTimeTicks`). So `Decided` is kept when a transaction ends unanswered (`EndedFacts`):
nothing of it is under way any more. That takes `Timely == MaxLife + MaxLag < Silence`, a bound
on the delay of each request, `Silence` being the wait after the last copy of a message (64 s
with the values of `er-coap-13.h`; 8 s against 2 s in the run). How many messages are lost,
doubled or late, how often either side restarts and how long answers take is not bounded:
`MaxTrouble` is arbitrary, and only TLC needs it small. Without `Timely`
`SameRegistration` is false: a copy of a registration that the client has given up makes the
server register anew after the next one (a hazard in `PROJECT.json`; TLC finds it with
COAP_MAX_RETRANSMIT = 0, COAP_RESPONSE_TIMEOUT = 1, 4 mishaps and `MaxLife` = 1, and nothing with
`MaxLife` = 0). The lemmas `StepKeeps`, `StemKeeps`, `ShrinkKeeps`, `KeepFacts` and
`DealtKeeps` each serve several actions: retransmission, the passing of a second, the
arrival of an answer or its loss, and what the server decides before it forgets.

**The reports.** `ReportInv` says where a report is (in the list or with one transaction),
that every transaction of a notification waits for its acknowledgement, and that the counter
is the length of the list unless the agent is ended or locked up. One lemma per step shows at once that
the invariant is kept, that the step maps to a step of ReportService or to none, that a
cancellation leaves no report, and that SENT_SUCCESS is told for an acknowledgement
(`NextStep`), since these share what they need of each operator.

**Assumptions.** Those on constants say what the initialisation of the code establishes:
arrays of control blocks hold each block once and the wait lists of different objects are
different (`TcbAssumption`, `SemAssumption`, `MuxAssumption`, `QueueAssumption`,
`MailAssumption`), each event has a list of its own and no call asks for no flag
(`EventAssumption`), the pools of different mail queues share no block (`MailAssumption`), the
value for "in no call" is not a call (`CallAssumption`, `MailCallAssumption`), the wheel
has a slot (`WheelAssumption`), and no timer has the interval zero, which `LOS_SwtmrCreate`
refuses, while timer identifiers wrap at a multiple of the number of blocks
(`SwtmrAssumption`). TLC evaluates all of them in the runs. The hypotheses of the theorems, `~IsrSuspends`,
`~LockedAllocs`, `Ordered`, `PriSetArg = {}` and `Timely`, are choices of the application or the
network that section 3 names; `QueueSize >= LIMIT` is how `los_config.h` of every target sets
`OS_SWTMR_HANDLE_QUEUE_SIZE`; the runs take the same ones.

Only model-checked: liveness and fairness (`DelayEnds`, `RoundRobin`, `Recovers`,
`SentConcluded`, `ObservedDrains`), which are out of the prover's reach. Every safety property
that a passing run checks is a theorem.

## 6. Not modelled

* `LOS_EventDestory`; the tickless and the alignment code of the software timers and timer
  calls from interrupt handlers.
* Within one iteration of `osTaskScan` interrupts are not modelled; device interrupts do not
  nest. The 16-bit wrap of `g_usLosTaskLock` needs 65536 nested locks and is bounded away by
  `MaxLock`.
* The memory managers: sequential algorithms on addresses and sizes, behind interfaces whose
  failure is a choice in the models that call them.
* LwM2M: bootstrap, block transfer, the server side of the library, the read, write and
  discovery of objects, several servers (the branches of `lwm2m_step` and `registration_step`
  for them; with one server `registration_step` never sees REG_FAILED since `lwm2m_step`
  has registered again before), STATE_REG_UPDATE_NEEDED, which only the demo asks for, the
  encodings, and failures of memory other than a registration that cannot be sent.
* AgentTiny: the device and firmware objects, the report list of the firmware state (it is
  handled by the same functions), and the connection.
* CMSIS wrappers, initialisation, information functions, register saving, exceptions, CPU
  usage statistics, drivers, boards, examples and vendored code (lwIP, mbed TLS, er-coap,
  HAL). These are most of the repository's lines and hold none of the state above.

## 7. What could follow

1. Memory: the memory box and the best-fit heap as algorithms against a reference.
2. `osTaskScan` with interrupts inside an iteration; deletion of a task whose wait has expired
   or that was woken in a queue call.
3. Liveness of timed waits, on a run of an IPC service small enough for it.
