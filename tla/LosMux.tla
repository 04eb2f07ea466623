------------------------------- MODULE LosMux -------------------------------
(***************************************************************************)
(* Recursive mutexes with priority inheritance, los_mux.c.  The wait list   *)
(* of mutex m is the list os.list[m]; a free control block is on unusedMux. *)
(***************************************************************************)
EXTENDS LosIpc

CONSTANTS
  MuxArray,     \* the control blocks of g_pstAllMux, in order
  NoOwner,      \* pstOwner is NULL
  MuxTimeouts,  \* the timeouts the application passes to LOS_MuxPend but 0
  MaxNest,      \* bound: how often a task locks a mutex it owns
  Ordered       \* do the tasks nest their mutexes in one order?

Mux == Elems(MuxArray)

ASSUME MuxAssumption ==
  /\ MuxArray \in Seq(Elems(MuxArray))
  /\ \A i, j \in DOMAIN MuxArray : MuxArray[i] = MuxArray[j] => i = j
  /\ Mux \subseteq WaitList /\ NoCall \notin WaitList
  /\ NoOwner \notin Task /\ MaxNest \in Nat \ {0} /\ Ordered \in BOOLEAN
  /\ MuxTimeouts \subseteq Ticks \cup {LOS_WAIT_FOREVER}

VARIABLES
  mux,        \* ucMuxStat, usMuxCount, pstOwner and usPriority of each control block
  unusedMux   \* g_stUnusedMuxList

vars == <<os, call, mux, unusedMux>>

MuxCb == [used : BOOLEAN, count : 0 .. MaxNest, owner : Task \cup {NoOwner}, prio : Prio]

MuxTypeOK ==
  /\ TypeOK
  /\ call \in [Task -> Mux \cup {NoCall}]
  /\ mux \in [Mux -> MuxCb]
  /\ unusedMux \in Seq(Mux)

Fresh(used) == [used |-> used, count |-> 0, owner |-> NoOwner, prio |-> 0]

\* The mutexes a task owns: the owner stays in the block when the count is down to 0.
Holds(t) == {m \in Mux : mux[m].count > 0 /\ mux[m].owner = t}

osMuxInit ==
  /\ mux = [m \in Mux |-> Fresh(FALSE)]
  /\ unusedMux = MuxArray

LOS_MuxCreate ==
  /\ BootContext \/ FreeTaskContext
  /\ unusedMux # <<>>
  /\ mux' = [mux EXCEPT ![Head(unusedMux)] = Fresh(TRUE)]
  /\ unusedMux' = Tail(unusedMux)
  /\ UNCHANGED <<os, call>>

LOS_MuxDelete(m) ==
  /\ FreeTaskContext
  /\ mux[m].used
  /\ os.list[m] = <<>> /\ mux[m].count = 0
  /\ mux' = [mux EXCEPT ![m].used = FALSE]
  /\ unusedMux' = <<m>> \o unusedMux
  /\ UNCHANGED <<os, call>>

\* LOS_MuxPend of a free mutex: the priority to go back to is the one of this moment.
MuxLock(m) ==
  /\ FreeTaskContext
  /\ mux[m].used /\ mux[m].count = 0
  /\ mux' = [mux EXCEPT ![m] = [used |-> TRUE, count |-> 1, owner |-> os.run,
                                prio |-> os.prio[os.run]]]
  /\ UNCHANGED <<os, call, unusedMux>>

MuxLockAgain(m) ==
  /\ FreeTaskContext
  /\ m \in Holds(os.run) /\ mux[m].used /\ mux[m].count < MaxNest
  /\ mux' = [mux EXCEPT ![m].count = @ + 1]
  /\ UNCHANGED <<os, call, unusedMux>>

\* The owner inherits the priority of the task that blocks.
Inherit(s, t) ==
  IF s.prio[t] > s.prio[s.run] THEN osTaskPriModify(s, t, s.prio[s.run]) ELSE s

\* Seeded fault: a task waits for the mutex it owns.
MuxWaitSelf(m, timeout) ==
  /\ FreeTaskContext
  /\ mux[m].used /\ mux[m].count > 0
  /\ os.lock = 0
  /\ os' = Reschedule(osTaskWait(Inherit(os, mux[m].owner), m, "PEND", timeout))
  /\ call' = [call EXCEPT ![os.run] = m]
  /\ UNCHANGED <<mux, unusedMux>>

MuxWait(m, timeout) ==
  /\ FreeTaskContext
  /\ mux[m].used /\ mux[m].count > 0 /\ mux[m].owner # os.run
  /\ os.lock = 0
  /\ os' = Reschedule(osTaskWait(Inherit(os, mux[m].owner), m, "PEND", timeout))
  /\ call' = [call EXCEPT ![os.run] = m]
  /\ UNCHANGED <<mux, unusedMux>>

\* Back in LOS_MuxPend: LOS_OK, or LOS_ERRNO_MUX_TIMEOUT when TIMEOUT is set.
MuxPendReturn(m) ==
  /\ InCall(m)
  /\ os' = ClearTimeout(os)
  /\ Return
  /\ UNCHANGED <<mux, unusedMux>>

MuxUnnest(m) ==
  /\ FreeTaskContext
  /\ m \in Holds(os.run) /\ mux[m].used /\ mux[m].count > 1
  /\ mux' = [mux EXCEPT ![m].count = @ - 1]
  /\ UNCHANGED <<os, call, unusedMux>>

\* Seeded fault: the owner keeps the priority it inherited.
KeepPriority(s, m) == s

\* The priority the owner had when it locked the mutex.
RestorePriority(s, m) ==
  IF s.prio[s.run] # mux[m].prio THEN osTaskPriModify(s, s.run, mux[m].prio) ELSE s

\* Seeded fault: the mutex is marked free although it has been handed over.
MuxReleaseFree(m) ==
  /\ FreeTaskContext
  /\ m \in Holds(os.run) /\ mux[m].used /\ mux[m].count = 1
  /\ mux' = [mux EXCEPT ![m].count = 0]
  /\ os' = IF os.list[m] = <<>> THEN RestorePriority(os, m)
           ELSE Reschedule(osTaskWake(RestorePriority(os, m), Head(os.list[m]), "PEND"))
  /\ UNCHANGED <<call, unusedMux>>

\* The last LOS_MuxPost hands the mutex to the task that waits longest.  Without a
\* waiter the caller's priority goes down and nobody reschedules.
MuxRelease(m) ==
  /\ FreeTaskContext
  /\ m \in Holds(os.run) /\ mux[m].used /\ mux[m].count = 1
  /\ LET s == RestorePriority(os, m)
         t == Head(os.list[m])
     IN  IF os.list[m] # <<>>
         THEN /\ mux' = [mux EXCEPT ![m].owner = t, ![m].prio = s.prio[t]]
              /\ os' = Reschedule(osTaskWake(s, t, "PEND"))
         ELSE /\ mux' = [mux EXCEPT ![m].count = 0]
              /\ os' = s
  /\ UNCHANGED <<call, unusedMux>>

MuxInit == InitIpc /\ osMuxInit

\* The order of the application: with Ordered, a task locks its mutexes in the order of
\* MuxArray and releases them in the reverse order.
Index(m) == CHOOSE i \in DOMAIN MuxArray : MuxArray[i] = m
MayLock(m) == Ordered => \A h \in Holds(os.run) : Index(h) <= Index(m)
MayRelease(m) == Ordered => \A h \in Holds(os.run) : Index(h) <= Index(m)

MuxCall ==
  \/ LOS_MuxCreate
  \/ \E m \in Mux : LOS_MuxDelete(m)
  \/ \E m \in Mux : MayLock(m) /\ MuxLock(m)
  \/ \E m \in Mux : MayLock(m) /\ MuxLockAgain(m)
  \/ \E m \in Mux, n \in MuxTimeouts : MayLock(m) /\ MuxWait(m, n)
  \/ \E m \in Mux : MuxPendReturn(m)
  \/ \E m \in Mux : MuxUnnest(m)
  \/ \E m \in Mux : MayRelease(m) /\ MuxRelease(m)

\* los_task.h warns against deleting a task that holds a mutex: nobody does.
MuxNext ==
  \/ MuxCall
  \/ KernelStep /\ UNCHANGED <<mux, unusedMux>>
  \/ \E t \in Task : Holds(t) = {} /\ DeleteStep(t) /\ UNCHANGED <<mux, unusedMux>>

MuxSpec == MuxInit /\ [][MuxNext]_vars
----------------------------------------------------------------------------
\* A task waits only for a mutex that is in use and that another living task owns:
\* otherwise nobody is left who could wake it up.
WaitsForOwner ==
  MuxTypeOK /\ \A m \in Mux : os.list[m] # <<>> =>
    /\ mux[m].used /\ mux[m].count > 0
    /\ mux[m].owner \notin Elems(os.list[m])
    /\ "UNUSED" \notin os.status[mux[m].owner]

\* A task that holds no mutex runs at the priority it was given: every priority it
\* inherited, at whatever nesting, is gone with the last release.  (Creation priorities
\* are fixed in the runs that check this, and mutexes are nested.)
PriorityRestored ==
  \A t \in User :
    "UNUSED" \notin os.status[t] /\ Holds(t) = {} => os.prio[t] \in CreatePrio[t]

\* Where the abstract mutex has a task: outside, waiting, handed the mutex, expired.
MuxView(t) ==
  IF call[t] = NoCall THEN "out"
  ELSE IF Waiting(t) THEN "waits"
  ELSE IF Expired(t) THEN "expired" ELSE "granted"

Abstract == INSTANCE Mutex
  WITH Task <- User,
       owner <- [m \in Mux |-> IF mux[m].count > 0 THEN mux[m].owner ELSE NoOwner],
       depth <- [m \in Mux |-> mux[m].count],
       queue <- [m \in Mux |-> os.list[m]],
       state <- [t \in User |-> MuxView(t)]

\* The kernel mutex implements the abstract one: one owner at a time, released as often
\* as it was locked and by its owner only, handed over first come first served, and a
\* task returns from a wait with the mutex in its hands or with an error.
ImplementsMutex == Abstract!Spec
=============================================================================
