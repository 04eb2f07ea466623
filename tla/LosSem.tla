------------------------------- MODULE LosSem -------------------------------
(***************************************************************************)
(* Counting and binary semaphores, los_sem.c.  The wait list of semaphore   *)
(* h is the list os.list[h]; a free control block is on unusedSem.          *)
(***************************************************************************)
EXTENDS LosIpc, Integers

CONSTANTS
  SemArray,   \* the control blocks of g_pstAllSem, in order
  MaxCounts,  \* the values of usMaxSemCount: OS_SEM_COUNTING_MAX_COUNT and 1
  SemTimeouts \* the timeouts the application passes to LOS_SemPend but 0

Sem == Elems(SemArray)
Counts == 0 .. (CHOOSE m \in MaxCounts : \A n \in MaxCounts : n <= m)

ASSUME SemAssumption ==
  /\ SemArray \in Seq(Elems(SemArray))
  /\ \A i, j \in DOMAIN SemArray : SemArray[i] = SemArray[j] => i = j
  /\ Sem \subseteq WaitList /\ NoCall \notin WaitList
  /\ MaxCounts \subseteq Nat \ {0} /\ \E m \in MaxCounts : \A n \in MaxCounts : n <= m
  /\ SemTimeouts \subseteq Ticks \cup {LOS_WAIT_FOREVER}

VARIABLES
  sem,        \* usSemStat, usSemCount and usMaxSemCount of each control block
  unusedSem,  \* g_stUnusedSemList
  taken       \* history: the calls of LOS_SemPend that got a permit at once, less the
              \* posts nobody waited for, since the semaphore was created

vars == <<os, call, sem, unusedSem, taken>>

SemCb == [used : BOOLEAN, count : Counts, max : MaxCounts]

SemTypeOK ==
  /\ TypeOK
  /\ call \in [Task -> Sem \cup {NoCall}]
  /\ sem \in [Sem -> SemCb]
  /\ unusedSem \in Seq(Sem)
  /\ taken \in [Sem -> Int]

osSemInit ==
  /\ sem = [h \in Sem |-> [used |-> FALSE, count |-> 0, max |-> CHOOSE m \in MaxCounts : TRUE]]
  /\ unusedSem = SemArray
  /\ taken = [h \in Sem |-> 0]

osSemCreate(count, max) ==
  /\ BootContext \/ FreeTaskContext
  /\ count <= max /\ unusedSem # <<>>
  /\ sem' = [sem EXCEPT ![Head(unusedSem)] = [used |-> TRUE, count |-> count, max |-> max]]
  /\ unusedSem' = Tail(unusedSem)
  /\ UNCHANGED <<os, call, taken>>

\* Seeded fault: the list of waiters is not looked at.
SemDeleteAnyway(h) ==
  /\ FreeTaskContext
  /\ sem[h].used
  /\ sem' = [sem EXCEPT ![h].used = FALSE]
  /\ unusedSem' = <<h>> \o unusedSem
  /\ taken' = [taken EXCEPT ![h] = 0]
  /\ UNCHANGED <<os, call>>

LOS_SemDelete(h) ==
  /\ FreeTaskContext
  /\ sem[h].used
  /\ os.list[h] = <<>>
  /\ sem' = [sem EXCEPT ![h].used = FALSE]
  /\ unusedSem' = <<h>> \o unusedSem
  /\ taken' = [taken EXCEPT ![h] = 0]
  /\ UNCHANGED <<os, call>>

\* Seeded fault: the permit stays where it was.
SemTakeKeep(h) ==
  /\ FreeTaskContext \/ IrqContext
  /\ sem[h].used /\ sem[h].count > 0
  /\ taken' = [taken EXCEPT ![h] = @ + 1]
  /\ UNCHANGED <<os, call, sem, unusedSem>>

\* A permit is there: an interrupt handler gets it too.
SemTake(h) ==
  /\ FreeTaskContext \/ IrqContext
  /\ sem[h].used /\ sem[h].count > 0
  /\ sem' = [sem EXCEPT ![h].count = @ - 1]
  /\ taken' = [taken EXCEPT ![h] = @ + 1]
  /\ UNCHANGED <<os, call, unusedSem>>

SemWait(h, timeout) ==
  /\ FreeTaskContext
  /\ sem[h].used /\ sem[h].count = 0
  /\ os.lock = 0
  /\ Block(h, "PEND", timeout, h)
  /\ UNCHANGED <<sem, unusedSem, taken>>

\* Back in LOS_SemPend: LOS_OK, or LOS_ERRNO_SEM_TIMEOUT when TIMEOUT is set.
SemPendReturn(h) ==
  /\ InCall(h)
  /\ os' = ClearTimeout(os)
  /\ Return
  /\ UNCHANGED <<sem, unusedSem, taken>>

\* Seeded fault: the woken task does not preempt the caller.
SemPostNoSchedule(h) ==
  /\ FreeTaskContext \/ IrqContext
  /\ sem[h].used /\ sem[h].count # sem[h].max
  /\ IF os.list[h] # <<>>
     THEN /\ os' = osTaskWake(os, Head(os.list[h]), "PEND")
          /\ UNCHANGED <<sem, taken>>
     ELSE /\ sem' = [sem EXCEPT ![h].count = @ + 1]
          /\ taken' = [taken EXCEPT ![h] = @ - 1]
          /\ UNCHANGED os
  /\ UNCHANGED <<call, unusedSem>>

\* Seeded fault: the largest count may be exceeded by one.
SemPostPastMax(h) ==
  /\ FreeTaskContext \/ IrqContext
  /\ sem[h].used /\ sem[h].count <= sem[h].max
  /\ os.list[h] = <<>>
  /\ sem' = [sem EXCEPT ![h].count = @ + 1]
  /\ taken' = [taken EXCEPT ![h] = @ - 1]
  /\ UNCHANGED <<os, call, unusedSem>>

LOS_SemPost(h) ==
  /\ FreeTaskContext \/ IrqContext
  /\ sem[h].used /\ sem[h].count # sem[h].max
  /\ IF os.list[h] # <<>>
     THEN /\ os' = Reschedule(osTaskWake(os, Head(os.list[h]), "PEND"))
          /\ UNCHANGED <<sem, taken>>
     ELSE /\ sem' = [sem EXCEPT ![h].count = @ + 1]
          /\ taken' = [taken EXCEPT ![h] = @ - 1]
          /\ UNCHANGED os
  /\ UNCHANGED <<call, unusedSem>>

SemInit == InitIpc /\ osSemInit

SemCall ==
  \/ \E m \in MaxCounts, c \in Counts : osSemCreate(c, m)
  \/ \E h \in Sem : LOS_SemDelete(h)
  \/ \E h \in Sem : SemTake(h)
  \/ \E h \in Sem, n \in SemTimeouts : SemWait(h, n)
  \/ \E h \in Sem : SemPendReturn(h)
  \/ \E h \in Sem : LOS_SemPost(h)

SemNext ==
  \/ SemCall
  \/ KernelStep /\ UNCHANGED <<sem, unusedSem, taken>>
  \/ \E t \in Task : DeleteStep(t) /\ UNCHANGED <<sem, unusedSem, taken>>

SemSpec == SemInit /\ [][SemNext]_vars
----------------------------------------------------------------------------
\* A task is on the wait list of the semaphore it is inside LOS_SemPend for, and is
\* deleted, resumed or timed out without leaving a trace on another list.
WaitsWhereItCalled ==
  \A t \in Task, h \in Sem : t \in Elems(os.list[h]) => call[t] = h

\* No permit lies idle while a task waits, and a semaphore with waiters stays in use.
NoIdlePermit ==
  \A h \in Sem : os.list[h] # <<>> => sem[h].used /\ sem[h].count = 0

\* Where the abstract semaphore has a task: outside, waiting, with a permit, expired.
SemView(t) ==
  IF call[t] = NoCall THEN "out"
  ELSE IF Waiting(t) THEN "waits"
  ELSE IF Expired(t) THEN "expired" ELSE "granted"

Abstract == INSTANCE Semaphore
  WITH avail <- [h \in Sem |-> sem[h].count],
       limit <- [h \in Sem |-> IF sem[h].used THEN sem[h].max ELSE 0],
       queue <- [h \in Sem |-> os.list[h]],
       state <- [t \in Task |-> SemView(t)],
       MaxPermits <- MaxCounts

\* The kernel semaphore (los_sem.c) implements the abstract one: from its creation to its
\* deletion the count moves with the permits taken and posted and with nothing else, a
\* posted permit goes to the first waiter instead, and a wait that expires takes none.
ImplementsSemaphore == Abstract!Spec
=============================================================================
