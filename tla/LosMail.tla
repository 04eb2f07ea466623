------------------------------- MODULE LosMail ------------------------------
(***************************************************************************)
(* Mail queues: osQueueMailAlloc and osQueueMailFree of los_queue.c, which  *)
(* give out the blocks of a memory pool (los_membox.c).  A task that finds  *)
(* the pool empty waits on the list stMemList of the queue and gets its     *)
(* block in puwMsg from the task that frees one.                            *)
(***************************************************************************)
EXTENDS LosQueue

CONSTANTS
  MailPool,     \* pMailPool: the blocks of the pool of each queue
  NoMail,       \* puwMsg is NULL
  MailTimeouts, \* the timeouts the application passes to osQueueMailAlloc but 0
  LockedAllocs  \* does the application allocate with a timeout under LOS_TaskLock?

MailBlock == UNION {MailPool[q] : q \in Queue}

ASSUME MailAssumption ==
  /\ DOMAIN MailPool = Queue
  /\ \A q, r \in Queue : q # r => MailPool[q] \cap MailPool[r] = {}
  /\ \A q, r \in Queue : MemList[q] = MemList[r] => q = r
  /\ \A side \in Side, q, r \in Queue : ReadWriteList[side][q] # MemList[r]
  /\ NoMail \notin MailBlock /\ LockedAllocs \in BOOLEAN
  /\ MailTimeouts \subseteq Ticks \cup {LOS_WAIT_FOREVER}

VARIABLES
  pool,   \* the free blocks of all pools
  puwMsg  \* the block a task was given while it waited

mailVars == <<os, call, queue, freeQueue, pool, puwMsg>>

MailCall == [mail : Queue]

ASSUME MailCallAssumption == NoCall \notin MailCall

MailTypeOK ==
  /\ TypeOK
  /\ call \in [Task -> QueueCall \cup MailCall \cup {NoCall}]
  /\ queue \in [Queue -> QueueCb]
  /\ freeQueue \in Seq(Queue)
  /\ pool \subseteq MailBlock
  /\ puwMsg \in [Task -> MailBlock \cup {NoMail}]

MailInit ==
  /\ QueueInit
  /\ pool = MailBlock
  /\ puwMsg = [t \in Task |-> NoMail]

MailTake(q, b) ==
  /\ FreeTaskContext \/ IrqContext
  /\ queue[q].used /\ b \in pool \cap MailPool[q]
  /\ pool' = pool \ {b}
  /\ UNCHANGED <<os, call, queue, freeQueue, puwMsg>>

\* Unlike the other pend functions this one does not look at the task lock.
MailWait(q, timeout) ==
  /\ FreeTaskContext
  /\ queue[q].used /\ pool \cap MailPool[q] = {}
  /\ LockedAllocs \/ os.lock = 0
  /\ Block(MemList[q], "PEND_QUEUE", timeout, [mail |-> q])
  /\ UNCHANGED <<queue, freeQueue, pool, puwMsg>>

\* Back in osQueueMailAlloc: NULL when TIMEOUT is set, the block in puwMsg otherwise.
MailReturn(q) ==
  /\ InCall([mail |-> q])
  /\ os' = ClearTimeout(os)
  /\ puwMsg' = IF TimedOut THEN puwMsg ELSE [puwMsg EXCEPT ![os.run] = NoMail]
  /\ Return
  /\ UNCHANGED <<queue, freeQueue, pool>>

\* Seeded fault: the waiting task is woken and no block is allocated for it.
MailFreeLate(q, b) ==
  /\ FreeTaskContext \/ IrqContext
  /\ b \notin pool /\ \A t \in Task : puwMsg[t] # b
  /\ pool' = pool \cup {b}
  /\ os' = IF queue[q].used /\ os.list[MemList[q]] # <<>>
           THEN Reschedule(osTaskWake(os, Head(os.list[MemList[q]]), "PEND_QUEUE")) ELSE os
  /\ UNCHANGED <<call, queue, freeQueue, puwMsg>>

\* Seeded fault: the waiting task gets a block that stays in the pool.
MailFreeKeep(q, b) ==
  /\ FreeTaskContext \/ IrqContext
  /\ b \notin pool /\ \A t \in Task : puwMsg[t] # b
  /\ queue[q].used /\ os.list[MemList[q]] # <<>>
  /\ os' = Reschedule(osTaskWake(os, Head(os.list[MemList[q]]), "PEND_QUEUE"))
  /\ puwMsg' = [puwMsg EXCEPT ![Head(os.list[MemList[q]])] = b]
  /\ pool' = pool \cup {b}
  /\ UNCHANGED <<call, queue, freeQueue>>

\* The block goes to the pool, and from there to the first waiting task.
osQueueMailFree(q, b) ==
  /\ FreeTaskContext \/ IrqContext
  /\ b \notin pool /\ \A t \in Task : puwMsg[t] # b
  /\ LET l == os.list[MemList[q]]
     IN  IF queue[q].used /\ l # <<>>
         THEN /\ os' = Reschedule(osTaskWake(os, Head(l), "PEND_QUEUE"))
              /\ \E a \in (pool \cup {b}) \cap MailPool[q] :
                   /\ puwMsg' = [puwMsg EXCEPT ![Head(l)] = a]
                   /\ pool' = (pool \cup {b}) \ {a}
         ELSE /\ pool' = pool \cup {b}
              /\ UNCHANGED <<os, puwMsg>>
  /\ UNCHANGED <<call, queue, freeQueue>>

\* LOS_TaskCreateOnly clears puwMsg of the block it takes.
ResetCreated ==
  puwMsg' = [t \in Task |->
               IF "UNUSED" \in os.status[t] /\ "UNUSED" \notin os'.status[t]
               THEN NoMail ELSE puwMsg[t]]

MailStep ==
  \/ \E q \in Queue : \E b \in MailPool[q] : MailTake(q, b)
  \/ \E q \in Queue, n \in MailTimeouts : MailWait(q, n)
  \/ \E q \in Queue : MailReturn(q)
  \/ \E q \in Queue : \E b \in MailPool[q] : osQueueMailFree(q, b)

MailNext ==
  \/ QueueStep /\ UNCHANGED <<pool, puwMsg>>
  \/ MailStep
  \/ KernelStep /\ ResetCreated /\ UNCHANGED <<queue, freeQueue, pool>>
  \/ \E t \in Task :
       MayDelete(t) /\ DeleteStep(t) /\ UNCHANGED <<queue, freeQueue, pool, puwMsg>>

MailSpec == MailInit /\ [][MailNext]_mailVars
----------------------------------------------------------------------------
\* A block is in the pool, promised to one waiting task, or with the application, and no
\* task waits for mail while a block lies in the pool of its queue.
BlocksInOnePlace ==
  /\ MailTypeOK
  /\ \A t \in Task : puwMsg[t] \notin pool
  /\ \A t, u \in Task : puwMsg[t] = puwMsg[u] => t = u \/ puwMsg[t] = NoMail
  /\ \A q \in Queue : os.list[MemList[q]] # <<>> => pool \cap MailPool[q] = {}

\* los_queue.c: "the current task already got a available membox, so the
\* pstRunTsk->puwMsg can not be NULL" when a task returns from its wait without TIMEOUT;
\* the block is one of the pool it asked.
MailNeverNull ==
  \A q \in Queue :
    InCall([mail |-> q]) /\ ~TimedOut => puwMsg[os.run] \in MailPool[q]
=============================================================================
