------------------------------ MODULE LosSwtmr ------------------------------
(***************************************************************************)
(* Software timers, los_swtmr.c.  The running timers are on one list in the *)
(* order of their expiry; each counts from the expiry of the one before it. *)
(* The tick counts the first one down and writes what expires to a message  *)
(* queue, which the software timer task reads.                              *)
(***************************************************************************)
EXTENDS Naturals, Sequences, DeltaList

CONSTANTS
  LIMIT,       \* LOSCFG_BASE_CORE_SWTMR_LIMIT, the number of control blocks
  MAX_TIMERID, \* OS_SWTMR_MAX_TIMERID, a multiple of LIMIT
  QueueSize,   \* OS_SWTMR_HANDLE_QUEUE_SIZE, LIMIT in every target
  Interval     \* the intervals the application asks for

ASSUME SwtmrAssumption ==
  /\ LIMIT \in Nat \ {0} /\ QueueSize \in Nat /\ Interval \subseteq Nat \ {0}
  /\ MAX_TIMERID \in Nat /\ MAX_TIMERID % LIMIT = 0 /\ MAX_TIMERID >= LIMIT

VARIABLES
  cb,        \* m_pstSwtmrCBArray
  sortList,  \* m_pstSwtmrSortList, as a sequence
  freeList,  \* m_pstSwtmrFreeList, as a sequence
  creating,  \* blocks that LOS_SwtmrCreate has taken and not filled in yet
  handler,   \* the messages of m_uwSwTmrHandlerQueue, each by its timer
  expiring   \* the tick is in the loop of osSwTmrTimeoutHandle

swtmrVars == <<cb, sortList, freeList, creating, handler, expiring>>

Timer == 0 .. LIMIT - 1
Mode == {"ONCE", "PERIOD", "NO_SELFDELETE"}
Block ==
  [state : {"UNUSED", "CREATED", "TICKING"}, id : 0 .. MAX_TIMERID - 1,
   mode : Mode, interval : Interval \cup {0}, count : Nat]

SwtmrTypeOK ==
  /\ cb \in [Timer -> Block]
  /\ sortList \in Seq(Timer) /\ freeList \in Seq(Timer) /\ handler \in Seq(Timer)
  /\ Len(handler) <= QueueSize
  /\ creating \subseteq Timer /\ expiring \in BOOLEAN

osSwTmrInit ==
  /\ cb = [t \in Timer |-> [state |-> "UNUSED", id |-> t, mode |-> "ONCE",
                            interval |-> 0, count |-> 0]]
  /\ sortList = <<>>
  /\ freeList = [k \in 1 .. LIMIT |-> k - 1]
  /\ creating = {} /\ handler = <<>> /\ expiring = FALSE

----------------------------------------------------------------------------
\* The functions that change the list, on its control blocks and its order.
Sorted == [cb |-> cb, list |-> sortList]

Counts(s) == [t \in Timer |-> s.cb[t].count]

\* The ticks until the k-th timer of the list expires: osSwtmrTimeGet.
TimeGet(s, k) == Until(s.list, Counts(s), k)

\* Seeded fault: the timer behind the new one keeps its count.
StartKeepNext(s, t) ==
  LET n == s.cb[t].interval
      k == PlaceFor(s.list, Counts(s), n)
  IN  [cb |-> [s.cb EXCEPT ![t].state = "TICKING", ![t].count = n - TimeGet(s, k - 1)],
       list |-> InsertAt(s.list, k, t)]

osSwTmrStart(s, t) ==
  LET n == s.cb[t].interval
      k == PlaceFor(s.list, Counts(s), n)
      c == [s.cb EXCEPT ![t].state = "TICKING", ![t].count = n - TimeGet(s, k - 1)]
  IN  [cb |-> IF k > Len(s.list) THEN c
              ELSE [c EXCEPT ![s.list[k]].count = TimeGet(s, k) - n],
       list |-> InsertAt(s.list, k, t)]

osSwtmrStop(s, t) ==
  LET k == PlaceOf(s.list, t)
      c == [s.cb EXCEPT ![t].state = "CREATED"]
  IN  [cb |-> IF k = Len(s.list) THEN c
              ELSE [c EXCEPT ![s.list[k + 1]].count = @ + s.cb[t].count],
       list |-> RemoveAt(s.list, k)]

StopIfTicking(s, t) == IF s.cb[t].state = "TICKING" THEN osSwtmrStop(s, t) ELSE s

\* CHECK_SWTMRID and the state of the block: id names the timer t.
Names(id, t) == t = id % LIMIT /\ cb[t].id = id /\ cb[t].state # "UNUSED"

----------------------------------------------------------------------------
\* LOS_SwtmrCreate takes a block under the interrupt lock and fills it in afterwards.
SwtmrTake ==
  /\ ~expiring /\ freeList # <<>>
  /\ creating' = creating \cup {Head(freeList)}
  /\ freeList' = Tail(freeList)
  /\ UNCHANGED <<cb, sortList, handler, expiring>>

SwtmrFill(t, mode, n) ==
  /\ ~expiring /\ t \in creating
  /\ creating' = creating \ {t}
  /\ cb' = [cb EXCEPT ![t] = [state |-> "CREATED", id |-> @.id, mode |-> mode,
                              interval |-> n, count |-> 0]]
  /\ UNCHANGED <<sortList, freeList, handler, expiring>>

LOS_SwtmrStart(id) ==
  /\ ~expiring
  /\ \E t \in Timer :
       /\ Names(id, t)
       /\ LET s == osSwTmrStart(StopIfTicking(Sorted, t), t)
          IN  cb' = s.cb /\ sortList' = s.list
  /\ UNCHANGED <<freeList, creating, handler, expiring>>

LOS_SwtmrStop(id) ==
  /\ ~expiring
  /\ \E t \in Timer :
       /\ Names(id, t) /\ cb[t].state = "TICKING"
       /\ LET s == osSwtmrStop(Sorted, t)
          IN  cb' = s.cb /\ sortList' = s.list
  /\ UNCHANGED <<freeList, creating, handler, expiring>>

\* Seeded fault: a running timer is deleted without being stopped.
SwtmrDeleteRunning(id) ==
  /\ ~expiring
  /\ \E t \in Timer :
       /\ Names(id, t)
       /\ cb' = [cb EXCEPT ![t].state = "UNUSED"]
       /\ freeList' = <<t>> \o freeList
  /\ UNCHANGED <<sortList, creating, handler, expiring>>

LOS_SwtmrDelete(id) ==
  /\ ~expiring
  /\ \E t \in Timer :
       /\ Names(id, t)
       /\ LET s == StopIfTicking(Sorted, t)
          IN  cb' = [s.cb EXCEPT ![t].state = "UNUSED"] /\ sortList' = s.list
       /\ freeList' = <<t>> \o freeList
  /\ UNCHANGED <<creating, handler, expiring>>

\* The tick counts the first timer down.  No task runs before the tick has ended.
osSwtmrScan ==
  /\ ~expiring /\ sortList # <<>>
  /\ LET t == Head(sortList)
     IN  cb' = [cb EXCEPT ![t].count = @ - 1] /\ expiring' = (cb[t].count = 1)
  /\ UNCHANGED <<sortList, freeList, creating, handler>>

\* The identifier of a block that a one-shot timer has freed.
NextId(id) == IF id < MAX_TIMERID - LIMIT THEN id + LIMIT ELSE id % LIMIT

\* Seeded fault: room for one message less.
WriteExpiryShort(t) ==
  handler' = IF Len(handler) < QueueSize - 1 THEN Append(handler, t) ELSE handler

\* LOS_QueueWriteCopy without waiting: the message is lost when the queue is full.
WriteExpiry(t) ==
  handler' = IF Len(handler) < QueueSize THEN Append(handler, t) ELSE handler

\* One iteration of the loop of osSwTmrTimeoutHandle, for the first timer t.
TimeoutHandle(t) ==
  /\ expiring /\ sortList # <<>> /\ t = Head(sortList) /\ cb[t].count = 0
  /\ WriteExpiry(t)
  /\ LET popped == [cb |-> cb, list |-> Tail(sortList)]
     IN  CASE cb[t].mode = "ONCE" ->
                /\ cb' = [cb EXCEPT ![t].state = "UNUSED", ![t].id = NextId(@)]
                /\ sortList' = popped.list
                /\ freeList' = <<t>> \o freeList
           [] cb[t].mode = "PERIOD" ->
                /\ LET s == osSwTmrStart(popped, t)
                   IN  cb' = s.cb /\ sortList' = s.list
                /\ UNCHANGED freeList
           [] cb[t].mode = "NO_SELFDELETE" ->
                /\ cb' = [cb EXCEPT ![t].state = "CREATED"]
                /\ sortList' = popped.list
                /\ UNCHANGED freeList
  /\ UNCHANGED <<creating, expiring>>

TimeoutHandleEnd ==
  /\ expiring
  /\ sortList # <<>> => cb[Head(sortList)].count # 0
  /\ expiring' = FALSE
  /\ UNCHANGED <<cb, sortList, freeList, creating, handler>>

\* The timer task reads an expiry; the handler it runs calls whatever it likes.
osSwTmrTask ==
  /\ ~expiring /\ handler # <<>>
  /\ handler' = Tail(handler)
  /\ UNCHANGED <<cb, sortList, freeList, creating, expiring>>

SwtmrNext ==
  \/ SwtmrTake
  \/ \E t \in Timer, mode \in Mode, n \in Interval : SwtmrFill(t, mode, n)
  \/ \E id \in 0 .. MAX_TIMERID - 1 : LOS_SwtmrStart(id)
  \/ \E id \in 0 .. MAX_TIMERID - 1 : LOS_SwtmrStop(id)
  \/ \E id \in 0 .. MAX_TIMERID - 1 : LOS_SwtmrDelete(id)
  \/ osSwtmrScan
  \/ \E t \in Timer : TimeoutHandle(t)
  \/ TimeoutHandleEnd
  \/ osSwTmrTask

SwtmrSpec == osSwTmrInit /\ [][SwtmrNext]_swtmrVars
----------------------------------------------------------------------------
\* Every block is free, being created or in use.  It is on the list of running timers
\* exactly when it is ticking, so that the search of osSwtmrStop ends, and it is on no
\* list twice; its identifier leads back to it.
BlocksAgree ==
  /\ SwtmrTypeOK
  /\ IsInjective(sortList \o freeList)
  /\ \A t \in Timer :
       /\ cb[t].state = "TICKING" <=> t \in ToSet(sortList)
       /\ cb[t].state = "UNUSED" <=> t \in ToSet(freeList) \cup creating
       /\ t \notin creating \/ t \notin ToSet(freeList)
       /\ cb[t].id % LIMIT = t

Unhandled(t) == Cardinality({k \in DOMAIN handler : handler[k] = t})

\* The queue has a place for each timer (OS_SWTMR_HANDLE_QUEUE_SIZE): an expiry is lost
\* only when the timer task is so late that some timer has expired twice unhandled.
ExpiryKept ==
  [][\A t \in Timer :
       TimeoutHandle(t) /\ handler' = handler =>
         Unhandled(t) > 0 \/ \E u \in Timer : Unhandled(u) > 1]_swtmrVars

Left(t) == IF t \in ToSet(sortList) THEN TimeOf(sortList, Counts(Sorted), t) ELSE 0

Service == INSTANCE TimerService
  WITH setting <- [t \in Timer |-> IF cb[t].state = "UNUSED" THEN <<>>
                                   ELSE <<cb[t].mode, cb[t].interval>>],
       running <- ToSet(sortList),
       left <- [t \in Timer |-> Left(t)],
       line <- handler,
       LineSize <- QueueSize,
       scan <- expiring

\* The list with relative counts implements the timers: each expires exactly its interval
\* after its start, whatever is started, stopped, deleted or expires before it.
ImplementsTimers == Service!Spec
=============================================================================
