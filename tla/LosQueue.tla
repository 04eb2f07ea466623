------------------------------ MODULE LosQueue ------------------------------
(***************************************************************************)
(* Message queues, los_queue.c.  Queue q has a ring of nodes and, for its   *)
(* readers and its writers, a count of nodes they may take at once and a    *)
(* list of waiting tasks.  An operation that frees or fills a node hands it *)
(* to the first waiting task, or adds it to the count of the other side.    *)
(***************************************************************************)
EXTENDS LosIpc

CONSTANTS
  QueueArray,     \* the control blocks of g_pstAllQueue, in order
  ReadWriteList,  \* stReadWriteList: for READ and WRITE, the wait list of each queue
  MemList,        \* stMemList of each queue
  QueueLens,      \* the queue lengths the application asks for
  Msg,            \* the messages the application writes
  NoMsg,          \* what a node holds before it is written and after it is read
  QueueTimeouts   \* the timeouts the application passes but 0

Queue == Elems(QueueArray)
Side == {"READ", "WRITE"}
MaxLen == CHOOSE n \in QueueLens : \A k \in QueueLens : k <= n

ASSUME QueueAssumption ==
  /\ QueueArray \in Seq(Elems(QueueArray))
  /\ \A i, j \in DOMAIN QueueArray : QueueArray[i] = QueueArray[j] => i = j
  /\ ReadWriteList \in [Side -> [Queue -> WaitList]]
  /\ MemList \in [Queue -> WaitList]
  /\ \A a, b \in Side, q, r \in Queue :
       ReadWriteList[a][q] = ReadWriteList[b][r] => a = b /\ q = r
  /\ QueueLens \subseteq Nat \ {0} /\ \E n \in QueueLens : \A k \in QueueLens : k <= n
  /\ NoMsg \notin Msg
  /\ QueueTimeouts \subseteq Ticks \cup {LOS_WAIT_FOREVER}

VARIABLES
  queue,      \* the control block and the nodes of each queue
  freeQueue   \* g_stFreeQueueList

qvars == <<queue, freeQueue>>
queueVars == <<os, call, queue, freeQueue>>

QueueCb ==
  [used : BOOLEAN, len : QueueLens,
   head : 0 .. MaxLen - 1, tail : 0 .. MaxLen - 1,    \* usQueueHead, usQueueTail
   cnt : [Side -> 0 .. MaxLen],                       \* usReadWriteableCnt
   node : [0 .. MaxLen - 1 -> Msg \cup {NoMsg}]]      \* pucQueue

\* The operation types of osQueueOperate and the side each of them takes a node from.
OpType == {"READ_HEAD", "WRITE_HEAD", "WRITE_TAIL"}
SideOf(type) == IF type = "READ_HEAD" THEN "READ" ELSE "WRITE"
Other(side) == IF side = "READ" THEN "WRITE" ELSE "READ"

QueueCall ==
  [queue : Queue, type : {"READ_HEAD"}, msg : {NoMsg}]
    \cup [queue : Queue, type : {"WRITE_HEAD", "WRITE_TAIL"}, msg : Msg]

ASSUME CallAssumption == NoCall \notin QueueCall

QueueTypeOK ==
  /\ TypeOK
  /\ call \in [Task -> QueueCall \cup {NoCall}]
  /\ queue \in [Queue -> QueueCb]
  /\ freeQueue \in Seq(Queue)

\* pucQueue without a message, or NULL.
NoNodes == [i \in 0 .. MaxLen - 1 |-> NoMsg]

Fresh(n, used) ==
  [used |-> used, len |-> n, head |-> 0, tail |-> 0,
   cnt |-> [side \in Side |-> IF side = "READ" THEN 0 ELSE n],
   node |-> NoNodes]

osQueueInit ==
  /\ queue = [q \in Queue |-> Fresh(MaxLen, FALSE)]
  /\ freeQueue = QueueArray

LOS_QueueCreate(n) ==
  /\ BootContext \/ FreeTaskContext
  /\ freeQueue # <<>>
  /\ queue' = [queue EXCEPT ![Head(freeQueue)] = Fresh(n, TRUE)]
  /\ freeQueue' = Tail(freeQueue)
  /\ UNCHANGED <<os, call>>

\* Seeded fault: the tasks that have a node but have not run yet are forgotten.
QueueDeleteReserved(q) ==
  /\ FreeTaskContext
  /\ queue[q].used
  /\ \A side \in Side : os.list[ReadWriteList[side][q]] = <<>>
  /\ os.list[MemList[q]] = <<>>
  /\ queue' = [queue EXCEPT ![q].used = FALSE, ![q].node = NoNodes]
  /\ freeQueue' = <<q>> \o freeQueue
  /\ UNCHANGED <<os, call>>

\* The counts do not add up to the length while a woken task has not taken its node.
LOS_QueueDelete(q) ==
  /\ FreeTaskContext
  /\ queue[q].used
  /\ \A side \in Side : os.list[ReadWriteList[side][q]] = <<>>
  /\ os.list[MemList[q]] = <<>>
  /\ queue[q].cnt["READ"] + queue[q].cnt["WRITE"] = queue[q].len
  /\ queue' = [queue EXCEPT ![q].used = FALSE, ![q].node = NoNodes]
  /\ freeQueue' = <<q>> \o freeQueue
  /\ UNCHANGED <<os, call>>

\* Seeded fault: a message written to the head goes behind the first one.
WriteBehindHead(c, m) ==
  LET h == (c.head + c.len - 1) % c.len
  IN  [c EXCEPT !.head = h, !.node[c.head] = m]

WriteHead(c, m) ==
  LET h == (c.head + c.len - 1) % c.len
  IN  [c EXCEPT !.head = h, !.node[h] = m]

WriteTail(c, m) == [c EXCEPT !.node[c.tail] = m, !.tail = (@ + 1) % c.len]

\* The copy that stays in a node after the read is dead: here the node holds NoMsg, which
\* is no message, so that reading it again would show.
ReadHead(c) == [c EXCEPT !.node[c.head] = NoMsg, !.head = (@ + 1) % c.len]

osQueueBufferOperate(c, type, m) ==
  IF type = "READ_HEAD" THEN ReadHead(c)
  ELSE IF type = "WRITE_HEAD" THEN WriteHead(c, m)
  ELSE WriteTail(c, m)

\* Seeded fault: a node is handed to a waiting task and counted as well.
OperateTwice(s, c, q, type, m) ==
  LET l == ReadWriteList[Other(SideOf(type))][q]
      d == osQueueBufferOperate(c, type, m)
  IN  /\ os' = IF s.list[l] = <<>> THEN s
               ELSE Reschedule(osTaskWake(s, Head(s.list[l]), "PEND_QUEUE"))
      /\ queue' = [queue EXCEPT ![q] = [d EXCEPT !.cnt[Other(SideOf(type))] = @ + 1]]

\* Seeded fault: the node is counted and the waiting task is left alone.
OperateNoWake(s, c, q, type, m) ==
  /\ os' = s
  /\ queue' = [queue EXCEPT ![q] = [osQueueBufferOperate(c, type, m)
                                    EXCEPT !.cnt[Other(SideOf(type))] = @ + 1]]

\* Move the message, and pass the node to the other side.
Operate(s, c, q, type, m) ==
  LET l == ReadWriteList[Other(SideOf(type))][q]
      d == osQueueBufferOperate(c, type, m)
  IN  IF s.list[l] # <<>>
      THEN /\ os' = Reschedule(osTaskWake(s, Head(s.list[l]), "PEND_QUEUE"))
           /\ queue' = [queue EXCEPT ![q] = d]
      ELSE /\ os' = s
           /\ queue' = [queue EXCEPT ![q] = [d EXCEPT !.cnt[Other(SideOf(type))] = @ + 1]]

\* osQueueOperate when a node can be taken at once.
QueueTake(q, type, m) ==
  /\ FreeTaskContext \/ IrqContext
  /\ queue[q].used /\ queue[q].cnt[SideOf(type)] > 0
  /\ Operate(os, [queue[q] EXCEPT !.cnt[SideOf(type)] = @ - 1], q, type, m)
  /\ UNCHANGED <<call, freeQueue>>

QueueWait(q, type, m, timeout) ==
  /\ FreeTaskContext
  /\ queue[q].used /\ queue[q].cnt[SideOf(type)] = 0
  /\ os.lock = 0
  /\ Block(ReadWriteList[SideOf(type)][q], "PEND_QUEUE", timeout,
           [queue |-> q, type |-> type, msg |-> m])
  /\ UNCHANGED qvars

\* Back in osQueueOperate: the wait expired, or a node is reserved for the caller.
QueueReturn(c) ==
  /\ InCall(c)
  /\ IF TimedOut THEN os' = ClearTimeout(os) /\ UNCHANGED queue
     ELSE Operate(os, queue[c.queue], c.queue, c.type, c.msg)
  /\ Return
  /\ UNCHANGED freeQueue

Input == [type : {"READ_HEAD"}, msg : {NoMsg}]
           \cup [type : {"WRITE_HEAD", "WRITE_TAIL"}, msg : Msg]

QueueStep ==
  \/ \E n \in QueueLens : LOS_QueueCreate(n)
  \/ \E q \in Queue : LOS_QueueDelete(q)
  \/ \E q \in Queue, i \in Input : QueueTake(q, i.type, i.msg)
  \/ \E q \in Queue, i \in Input, n \in QueueTimeouts : QueueWait(q, i.type, i.msg, n)
  \/ \E c \in QueueCall : QueueReturn(c)

QueueInit == InitIpc /\ osQueueInit

\* A task that was woken in a queue call is not deleted before it has run: the node or
\* mail block it was handed would be lost (see README).
MayDelete(t) == ~Woken(t)

QueueNext ==
  \/ QueueStep
  \/ KernelStep /\ UNCHANGED qvars
  \/ \E t \in Task : MayDelete(t) /\ DeleteStep(t) /\ UNCHANGED qvars

QueueSpec == QueueInit /\ [][QueueNext]_queueVars
----------------------------------------------------------------------------
\* The tasks a node of q has been handed to that have not taken it yet.
Reserved(q, side) ==
  {t \in User : Woken(t) /\ call[t] \in QueueCall
                /\ call[t].queue = q /\ SideOf(call[t].type) = side}

Stored(q) == queue[q].cnt["READ"] + Cardinality(Reserved(q, "READ"))
Free(q) == queue[q].cnt["WRITE"] + Cardinality(Reserved(q, "WRITE"))

\* Every node of a queue is filled or free, and is counted or reserved for one task;
\* head and tail are as far apart as there are messages.
NodesAddUp ==
  QueueTypeOK /\ \A q \in Queue : queue[q].used =>
    /\ Stored(q) + Free(q) = queue[q].len
    /\ queue[q].tail = (queue[q].head + Stored(q)) % queue[q].len

\* No task waits for a node that is there: readers wait only when every message is
\* promised, writers only when every free node is, and only on a queue in use.
NobodyWaitsInVain ==
  \A q \in Queue, side \in Side :
    os.list[ReadWriteList[side][q]] # <<>> => queue[q].used /\ queue[q].cnt[side] = 0

\* The task that goes on in osQueueOperate after its wait does not look at the queue's
\* state again: the queue cannot have been deleted meanwhile.
WokenOnLiveQueue ==
  \A q \in Queue, side \in Side : Reserved(q, side) # {} => queue[q].used

\* The messages of q, oldest first.
Content(q) ==
  IF queue[q].used
  THEN [i \in 1 .. Stored(q) |-> queue[q].node[(queue[q].head + i - 1) % queue[q].len]]
  ELSE <<>>

Abstract == INSTANCE BoundedQueue
  WITH content <- [q \in Queue |-> Content(q)],
       capacity <- [q \in Queue |-> IF queue[q].used THEN queue[q].len ELSE 0]

\* A queue implements the abstract one: messages come out in the order they went in, or
\* first when they were written to the head, none is lost, doubled or overwritten, and
\* what waits and what is in flight between two tasks does not change that.
ImplementsQueue == Abstract!Spec
=============================================================================
