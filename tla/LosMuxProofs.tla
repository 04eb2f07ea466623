---------------------------- MODULE LosMuxProofs ----------------------------
(***************************************************************************)
(* Proofs about the mutexes of LosMux.                                     *)
(***************************************************************************)
EXTENDS LosMux, LosTaskProofs

\* Who waits: on mutexes only, where it called, and TIMEOUT is set inside a call only.
Waiters ==
  /\ call \in [Task -> Mux \cup {NoCall}]
  /\ \A t \in Task : /\ "PEND_QUEUE" \notin os.status[t]
                     /\ "TIMEOUT" \in os.status[t] => call[t] # NoCall
  /\ WaitsInCall

\* The control blocks: a free one is not in use, and one not in use is not locked.
Blocks ==
  /\ mux \in [Mux -> MuxCb]
  /\ unusedMux \in Seq(Mux) /\ NoDup(unusedMux)
  /\ \A m \in Elems(unusedMux) : ~mux[m].used
  /\ \A m \in Mux : ~mux[m].used => mux[m].count = 0

\* A living task owns a locked mutex.
Owned ==
  \A m \in Mux : mux[m].count > 0 =>
    mux[m].owner \in Task \ {Idle} /\ "UNUSED" \notin os.status[mux[m].owner]

\* Nobody waits for a free mutex, or for its own.
Waited ==
  \A m \in Mux : os.list[m] # <<>> =>
    mux[m].used /\ mux[m].count > 0 /\ mux[m].owner \notin Elems(os.list[m])

\* Whose wait has ended otherwise than by expiry owns the mutex.
Granted ==
  \A t \in Task, m \in Mux :
    call[t] = m /\ os.status[t] \cap {"PEND", "TIMEOUT"} = {} =>
      mux[m].count > 0 /\ mux[m].owner = t

\* The inductive invariant of the mutexes.  The first ready task need not run: the
\* release of a mutex nobody waits for lowers the caller and does not reschedule.
MuxInv == Core(os) /\ Waiters /\ Blocks /\ Owned /\ Waited /\ Granted

LEMMA MuxHeads ==
  /\ Mux \subseteq WaitList /\ Mux \subseteq Heads /\ NoCall \notin Mux
  /\ MuxTimeouts \subseteq Ticks \cup {LOS_WAIT_FOREVER} /\ 0 \in Prio
  /\ MaxNest \in Nat /\ MaxNest > 0
BY MuxAssumption, HeadsFacts, HeadAssumption DEF Prio

LEMMA PendsOnList ==
  ASSUME NEW s, Consistent(s), NEW t \in Task
  PROVE  s.status[t] \cap {"PEND", "PEND_QUEUE"} # {}
           <=> \E h \in WaitList : t \in Elems(s.list[h])
BY WaitListFacts DEF Consistent, TaskAgrees, On

\* The first task of a wait list pends.
LEMMA FirstWaiter ==
  ASSUME MuxInv, NEW m \in Mux, os.list[m] # <<>>, NEW t, t = Head(os.list[m])
  PROVE  /\ t \in Task \ {Idle} /\ t \in Elems(os.list[m]) /\ call[t] = m
         /\ "PEND" \in os.status[t] /\ "UNUSED" \notin os.status[t]
         /\ t \notin Elems(Tail(os.list[m]))
         /\ Elems(Tail(os.list[m])) \subseteq Elems(os.list[m])
<1>1. m \in WaitList /\ Consistent(os)
  BY MuxHeads DEF MuxInv, Core
<1>2. os.list[m] \in Seq(Task) /\ NoDup(os.list[m])
  BY <1>1, ListTypes
<1>3. /\ t \in Task /\ t \in Elems(os.list[m])
      /\ Elems(Tail(os.list[m])) = Elems(os.list[m]) \ {t}
  BY <1>2, HeadTailElems
<1>4. call[t] = m /\ os.status[t] \cap {"PEND", "PEND_QUEUE"} # {}
  BY <1>1, <1>3, PendsOnList DEF MuxInv, Waiters, WaitsInCall
<1>5. "PEND" \in os.status[t] /\ "UNUSED" \notin os.status[t] /\ t # Idle
  BY <1>1, <1>3, <1>4 DEF MuxInv, Waiters, Consistent, TaskAgrees, IdleStays
<1> QED BY <1>3, <1>4, <1>5

\* A change of priority moves a task between ready lists and leaves the rest alone.
Lifted(s, r) ==
  /\ Consistent(r) /\ SameControl(s, r) /\ r.wild = s.wild /\ r.status = s.status
  /\ \A h \in WaitList : r.list[h] = s.list[h]

LEMMA LiftedSame ==
  ASSUME NEW s, Consistent(s)
  PROVE  Lifted(s, s)
BY DEF Lifted, SameControl

LEMMA PriModifyLifts ==
  ASSUME NEW s, Consistent(s), NEW t \in Task \ {Idle}, NEW p \in Prio
  PROVE  Lifted(s, osTaskPriModify(s, t, p))
<1> DEFINE r == osTaskPriModify(s, t, p)
<1>1. /\ Consistent(r) /\ SameControl(s, r) /\ r.wild = s.wild /\ r.status = s.status
  BY PriModifyFacts
<1>2. \A h \in WaitList : r.list[h] = s.list[h]
  BY KeepsWaitsPri, PlainKernel DEF KeepsWaits, Consistent
<1> QED BY <1>1, <1>2 DEF Lifted

LEMMA InheritLifts ==
  ASSUME NEW s, Consistent(s), NEW t \in Task \ {Idle}, s.run \in Task
  PROVE  Lifted(s, Inherit(s, t))
<1>1. s.prio[s.run] \in Prio
  BY DEF Consistent, KernelState
<1> QED BY <1>1, PriModifyLifts, LiftedSame DEF Inherit

LEMMA RestoreLifts ==
  ASSUME NEW s, Consistent(s), s.run \in Task \ {Idle}, NEW m, mux[m].prio \in Prio
  PROVE  Lifted(s, RestorePriority(s, m))
BY PriModifyLifts, LiftedSame DEF RestorePriority

\* The state between a change of priority and LOS_Schedule.
LEMMA LiftedCore ==
  ASSUME Core(os), TaskContext, NEW s, Lifted(os, s)
  PROVE  Core(s)
<1>1. Control(s)
  BY DEF Lifted, SameControl, Core, Control
<1>2. Current(s)
  <2>1. ~os.pendSV /\ os.scheduled /\ "READY" \in os.status[os.run]
    BY CallerReady
  <2> QED BY <2>1 DEF Lifted, SameControl, Current, Settled
<1> QED BY <1>1, <1>2 DEF Lifted, Core

\* The caller blocks after it has lifted the owner.
LEMMA LiftedBlock ==
  ASSUME Core(os), TaskContext, os.lock = 0, NEW t, t = os.run, "TIMEOUT" \notin os.status[t],
         NEW s, Lifted(os, s), NEW h \in WaitList, NEW timeout \in Ticks \cup {LOS_WAIT_FOREVER},
         os' = Reschedule(osTaskWait(s, h, "PEND", timeout))
  PROVE  /\ Core(os') /\ t \in Task \ {Idle}
         /\ \A g \in WaitList : os'.list[g] = IF g = h THEN Append(os.list[h], t) ELSE os.list[g]
         /\ \A u \in Task \ {t} : os'.status[u] = os.status[u]
         /\ "PEND" \in os'.status[t]
         /\ os'.status[t] \subseteq os.status[t] \cup {"PEND", "TIMEOUT"}
<1> DEFINE r == osTaskWait(s, h, "PEND", timeout)
<1>1. /\ t \in Task \ {Idle} /\ "READY" \in os.status[t]
      /\ os.scheduled /\ ~os.pendSV /\ ~os.irq /\ ~os.scan
  BY CallerReady
<1>2. /\ Consistent(s) /\ s.run = t /\ s.status = os.status
      /\ \A g \in WaitList : s.list[g] = os.list[g]
  BY DEF Lifted, SameControl
<1>3. /\ Consistent(r) /\ Alike(s, r) /\ SameBut(s, r, t) /\ On(r, t) = {h}
      /\ r.status[t] \ {"READY", "PEND", "TIMEOUT"} = s.status[t] \ {"READY"}
  <2>1. "READY" \in s.status[t] /\ "TIMEOUT" \notin s.status[t]
    BY <1>1, <1>2
  <2>2. "PEND" \in {"PEND", "PEND_QUEUE"}
    OBVIOUS
  <2>3. ASSUME NEW f \in {"PEND", "PEND_QUEUE"}
        PROVE  LET k == osTaskWait(s, h, f, timeout)
               IN  /\ Consistent(k) /\ Alike(s, k) /\ SameBut(s, k, t) /\ On(k, t) = {h}
                   /\ k.status[t] \ {"READY", f, "TIMEOUT"} = s.status[t] \ {"READY"}
    <3>1. t \in Task \ {Idle} /\ Consistent(s) /\ t = s.run
      BY <1>1, <1>2
    <3> HIDE DEF r
    <3> QED BY ONLY <2>1, <2>3, <3>1, WaitFacts, SMTT(60)
  <2> QED BY <2>2, <2>3
<1>4. \A g \in WaitList : r.list[g] = IF g = h THEN Append(s.list[h], t) ELSE s.list[g]
  BY <1>1, <1>2, BlockOrder
<1> HIDE DEF r
<1>5. Alike(os, r)
  BY <1>3 DEF Alike, Lifted, SameControl
<1>6. StaysOn(os, r)
  <2>1. \A u \in Task : "RUNNING" \in r.status[u] <=> "RUNNING" \in os.status[u]
    BY <1>2, <1>3 DEF SameBut
  <2> QED BY <2>1, BoundAssumption DEF StaysOn
<1>7. Core(os') /\ os'.list = r.list /\ os'.status = r.status
  BY <1>1, <1>3, <1>5, <1>6, CallCore DEF r
<1>8. "PEND" \in r.status[t]
  <2>1. r.status[t] \cap {"PEND", "PEND_QUEUE"} # {}
    BY <1>1, <1>3 DEF Consistent, TaskAgrees
  <2>2. "PEND_QUEUE" \notin os.status[t]
    BY <1>1 DEF Core, Consistent, TaskAgrees, Blocked
  <2> QED BY <1>2, <1>3, <2>1, <2>2
<1> QED BY <1>1, <1>2, <1>3, <1>4, <1>7, <1>8 DEF SameBut

\* The caller wakes a task after its own priority has gone down.
LEMMA LiftedWake ==
  ASSUME Core(os), TaskContext, NEW s, Lifted(os, s),
         NEW t \in Task, "PEND" \in os.status[t],
         os' = Reschedule(osTaskWake(s, t, "PEND"))
  PROVE  /\ Core(os') /\ Leaves(os, os', t)
         /\ \A u \in Task \ {t} : os'.status[u] = os.status[u]
         /\ os'.status[t] \ {"READY"} = os.status[t] \ {"PEND", "TIMEOUT"}
<1> DEFINE r == osTaskWake(s, t, "PEND")
<1>1. /\ os.run \in Task \ {Idle} /\ "READY" \in os.status[os.run]
      /\ os.scheduled /\ ~os.pendSV /\ ~os.irq /\ ~os.scan
      /\ os.status[os.run] \cap Blocked = {}
  BY CallerReady
<1>2. /\ Consistent(s) /\ s.run = os.run /\ s.status = os.status
      /\ \A g \in WaitList : s.list[g] = os.list[g]
  BY DEF Lifted, SameControl
<1>3. /\ Consistent(r) /\ Alike(s, r) /\ SameBut(s, r, t)
      /\ r.status[t] \ {"READY"} = s.status[t] \ {"PEND", "TIMEOUT"}
  BY <1>2, WakeFacts
<1>4. Leaves(s, r, t)
  BY <1>2, PlainKernel, WakeOrder DEF Consistent
<1> HIDE DEF r
<1>5. Alike(os, r)
  BY <1>3 DEF Alike, Lifted, SameControl
<1>6. StaysOn(os, r)
  <2>1. \A u \in Task : "RUNNING" \in r.status[u] <=> "RUNNING" \in os.status[u]
    BY <1>2, <1>3 DEF SameBut
  <2>2. os.run # t
    BY <1>1 DEF Blocked
  <2>3. "READY" \in r.status[os.run]
    BY <1>1, <1>2, <1>3, <2>2 DEF SameBut
  <2> QED BY <2>1, <2>3 DEF StaysOn
<1>7. Core(os') /\ os'.list = r.list /\ os'.status = r.status
  BY <1>1, <1>3, <1>5, <1>6, CallCore DEF r
<1> QED BY <1>2, <1>3, <1>4, <1>7 DEF SameBut, Leaves

----------------------------------------------------------------------------
\* One lemma per action.

LEMMA MuxInitInv == MuxInit => MuxInv
<1> SUFFICES ASSUME MuxInit PROVE MuxInv
  OBVIOUS
<1>1. Core(os) /\ Quiet(os) /\ Consistent(os)
  BY InitInv DEF MuxInit, InitIpc, Inv, Core
<1>2. call = [t \in Task |-> NoCall]
  BY DEF MuxInit, InitIpc
<1>3. \A t \in Task, h \in WaitList : t \notin Elems(os.list[h])
  BY <1>1, PendsOnList DEF Quiet, Waits
<1>4. Waiters
  BY <1>1, <1>2, <1>3 DEF Waiters, Quiet, Waits, WaitsInCall
<1>5. \A m \in Mux : mux[m].count = 0 /\ ~mux[m].used
  BY DEF MuxInit, osMuxInit, Fresh
<1>6. Blocks
  <2>1. Fresh(FALSE) \in MuxCb
    BY MuxHeads DEF Fresh, MuxCb
  <2>2. mux \in [Mux -> MuxCb]
    BY <2>1 DEF MuxInit, osMuxInit
  <2>3. unusedMux \in Seq(Mux) /\ NoDup(unusedMux) /\ Elems(unusedMux) \subseteq Mux
    BY MuxAssumption DEF MuxInit, osMuxInit, NoDup, Mux
  <2> QED BY <1>5, <2>2, <2>3 DEF Blocks
<1>7. \A m \in Mux : os.list[m] = <<>>
  BY <1>1, <1>3, MuxHeads, ListTypes, ElemsEmpty
<1>8. Owned /\ Waited
  BY <1>5, <1>7 DEF Owned, Waited
<1>9. Granted
  BY <1>2, MuxHeads DEF Granted
<1> QED BY <1>1, <1>4, <1>6, <1>8, <1>9 DEF MuxInv

\* A call that changes one control block and neither lists nor calls.
LEMMA BlockInv ==
  ASSUME MuxInv, NEW m \in Mux, NEW b \in MuxCb, mux' = [mux EXCEPT ![m] = b],
         UNCHANGED <<os, call, unusedMux>>,
         mux[m].used, b.used,
         b.count > 0 => b.owner \in Task \ {Idle} /\ "UNUSED" \notin os.status[b.owner],
         os.list[m] # <<>> => b.count > 0 /\ b.owner = mux[m].owner,
         mux[m].count > 0 /\ call[mux[m].owner] = m => b.count > 0 /\ b.owner = mux[m].owner
  PROVE  MuxInv'
<1>1. /\ mux' \in [Mux -> MuxCb] /\ mux'[m] = b /\ \A g \in Mux \ {m} : mux'[g] = mux[g]
  BY DEF MuxInv, Blocks
<1>2. Core(os') /\ Waiters'
  BY DEF MuxInv, Waiters, WaitsInCall
<1>3. Blocks'
  BY <1>1, ElemsType DEF MuxInv, Blocks
<1>4. Owned'
  BY <1>1 DEF MuxInv, Owned
<1>5. Waited'
  BY <1>1 DEF MuxInv, Waited
<1>6. Granted'
  BY <1>1 DEF MuxInv, Granted
<1> QED BY <1>2, <1>3, <1>4, <1>5, <1>6 DEF MuxInv

LEMMA MuxCreateInv ==
  ASSUME MuxInv, LOS_MuxCreate
  PROVE  MuxInv'
<1> DEFINE m == Head(unusedMux)
           b == Fresh(TRUE)
<1>1. /\ unusedMux # <<>> /\ mux' = [mux EXCEPT ![m] = b]
      /\ unusedMux' = Tail(unusedMux) /\ os' = os /\ call' = call
  BY DEF LOS_MuxCreate
<1>2. /\ m \in Mux /\ m \in Elems(unusedMux) /\ Tail(unusedMux) \in Seq(Mux)
      /\ NoDup(Tail(unusedMux)) /\ Elems(Tail(unusedMux)) = Elems(unusedMux) \ {m}
  BY <1>1, HeadTailElems DEF MuxInv, Blocks
<1>3. b \in MuxCb /\ b.used /\ b.count = 0
  BY MuxHeads DEF MuxCb, Fresh
<1> HIDE DEF m, b
<1>4. ~mux[m].used /\ mux[m].count = 0 /\ os.list[m] = <<>>
  BY <1>2, MuxHeads DEF MuxInv, Blocks, Waited
<1>5. mux' \in [Mux -> MuxCb] /\ mux'[m] = b /\ \A g \in Mux \ {m} : mux'[g] = mux[g]
  BY <1>1, <1>2, <1>3 DEF MuxInv, Blocks
<1>6. Core(os') /\ Waiters'
  BY <1>1 DEF MuxInv, Waiters, WaitsInCall
<1>7. Blocks'
  <2>1. \A g \in Elems(unusedMux') : ~mux'[g].used
    BY <1>1, <1>2, <1>5, ElemsType DEF MuxInv, Blocks
  <2>2. \A g \in Mux : ~mux'[g].used => mux'[g].count = 0
    BY <1>3, <1>5 DEF MuxInv, Blocks
  <2> QED BY <1>1, <1>2, <1>5, <2>1, <2>2 DEF Blocks
<1>8. Owned' /\ Waited' /\ Granted'
  BY <1>1, <1>3, <1>4, <1>5 DEF MuxInv, Owned, Waited, Granted
<1> QED BY <1>6, <1>7, <1>8 DEF MuxInv

LEMMA MuxDeleteInv ==
  ASSUME MuxInv, NEW m \in Mux, LOS_MuxDelete(m)
  PROVE  MuxInv'
<1> DEFINE one == <<m>>
<1>1. /\ mux[m].used /\ os.list[m] = <<>> /\ mux[m].count = 0
      /\ mux' = [mux EXCEPT ![m].used = FALSE]
      /\ unusedMux' = one \o unusedMux /\ os' = os /\ call' = call
  BY DEF LOS_MuxDelete
<1>2. one \in Seq(Mux) /\ NoDup(one) /\ Elems(one) = {m}
  BY DEF NoDup, Elems
<1>3. Elems(one) \cap Elems(unusedMux) = {}
  BY <1>1, <1>2 DEF MuxInv, Blocks
<1> HIDE DEF one
<1>4. /\ unusedMux' \in Seq(Mux) /\ NoDup(unusedMux')
      /\ Elems(unusedMux') = {m} \cup Elems(unusedMux)
  BY <1>1, <1>2, <1>3, ConcatElems DEF MuxInv, Blocks
<1>5. /\ mux' \in [Mux -> MuxCb] /\ ~mux'[m].used /\ mux'[m].count = 0
      /\ \A g \in Mux \ {m} : mux'[g] = mux[g]
  BY <1>1 DEF MuxInv, Blocks, MuxCb
<1>6. Core(os') /\ Waiters'
  BY <1>1 DEF MuxInv, Waiters, WaitsInCall
<1>7. Blocks'
  BY <1>4, <1>5, ElemsType DEF MuxInv, Blocks
<1>8. Owned'
  BY <1>1, <1>5 DEF MuxInv, Owned
<1>9. Waited'
  BY <1>1, <1>5 DEF MuxInv, Waited
<1>10. Granted'
  BY <1>1, <1>5 DEF MuxInv, Granted
<1> QED BY <1>6, <1>7, <1>8, <1>9, <1>10 DEF MuxInv

\* The caller is alive and in no call.
LEMMA Caller ==
  ASSUME MuxInv, FreeTaskContext
  PROVE  /\ TaskContext /\ os.run \in Task \ {Idle} /\ call[os.run] = NoCall
         /\ "UNUSED" \notin os.status[os.run] /\ "TIMEOUT" \notin os.status[os.run]
         /\ os.prio[os.run] \in Prio /\ os.run \in User
<1>1. TaskContext /\ Core(os)
  BY DEF MuxInv, FreeTaskContext
<1>2. os.run \in Task \ {Idle} /\ os.status[os.run] \cap (Blocked \cup {"UNUSED"}) = {}
  BY <1>1, CallerReady
<1>3. call[os.run] = NoCall
  BY <1>2 DEF FreeTaskContext, Ready2Call
<1> QED BY <1>1, <1>2, <1>3 DEF MuxInv, Waiters, Core, Consistent, KernelState, Task

LEMMA MuxLockInv ==
  ASSUME MuxInv, NEW m \in Mux, MuxLock(m)
  PROVE  MuxInv'
<1> DEFINE b == [used |-> TRUE, count |-> 1, owner |-> os.run, prio |-> os.prio[os.run]]
<1>1. /\ FreeTaskContext /\ mux[m].used /\ mux[m].count = 0 /\ mux' = [mux EXCEPT ![m] = b]
      /\ UNCHANGED <<os, call, unusedMux>>
  BY DEF MuxLock
<1>2. /\ os.run \in Task \ {Idle} /\ "UNUSED" \notin os.status[os.run]
      /\ os.prio[os.run] \in Prio
  BY <1>1, Caller
<1>3. b \in MuxCb /\ b.used /\ b.count > 0 /\ b.owner = os.run
  BY <1>2, MuxHeads DEF MuxCb
<1>4. os.list[m] = <<>> /\ ~(mux[m].count > 0)
  BY <1>1 DEF MuxInv, Waited
<1>5. mux' = [mux EXCEPT ![m] = b]
  BY <1>1
<1> HIDE DEF b
<1> QED BY <1>1, <1>2, <1>3, <1>4, <1>5, BlockInv

LEMMA MuxNestInv ==
  ASSUME MuxInv, NEW m \in Mux, MuxLockAgain(m) \/ MuxUnnest(m)
  PROVE  MuxInv'
<1>1. PICK c \in 1 .. MaxNest : mux' = [mux EXCEPT ![m].count = c]
  <2>1. PICK n \in 0 .. MaxNest : mux[m].count = n
    BY DEF MuxInv, Blocks, MuxCb
  <2>2. CASE MuxLockAgain(m)
    <3>1. mux' = [mux EXCEPT ![m].count = n + 1] /\ n < MaxNest
      BY <2>1, <2>2 DEF MuxLockAgain, MuxInv, Blocks
    <3>2. n + 1 \in 1 .. MaxNest
      BY <3>1, MuxHeads
    <3> QED BY <3>1, <3>2
  <2>3. CASE MuxUnnest(m)
    <3>1. mux' = [mux EXCEPT ![m].count = n - 1] /\ n > 1
      BY <2>1, <2>3 DEF MuxUnnest, MuxInv, Blocks
    <3>2. n - 1 \in 1 .. MaxNest
      BY <3>1, MuxHeads
    <3> QED BY <3>1, <3>2
  <2> QED BY <2>2, <2>3
<1>2. mux[m].used /\ mux[m].count > 0 /\ UNCHANGED <<os, call, unusedMux>>
  BY DEF MuxLockAgain, MuxUnnest, Holds
<1> DEFINE b == [mux[m] EXCEPT !.count = c]
<1>3. /\ b \in MuxCb /\ b.used /\ b.count > 0 /\ b.owner = mux[m].owner
  <2>1. mux[m] \in MuxCb /\ c \in 0 .. MaxNest /\ c > 0
    BY MuxHeads DEF MuxInv, Blocks
  <2> HIDE DEF MuxInv
  <2> QED BY <1>2, <2>1 DEF MuxCb
<1>4. mux' = [mux EXCEPT ![m] = b]
  BY <1>1
<1> HIDE DEF b
<1> QED BY <1>2, <1>3, <1>4, BlockInv DEF MuxInv, Owned

\* The control blocks are what they were, and nobody has come on a wait list or is marked
\* unused who owns a mutex.
LEMMA QuietStepInv ==
  ASSUME MuxInv, Core(os'), UNCHANGED <<mux, unusedMux>>,
         call' \in [Task -> Mux \cup {NoCall}],
         \A m \in Mux : Elems(os'.list[m]) \subseteq Elems(os.list[m]),
         \A m \in Mux : os.list[m] = <<>> => os'.list[m] = <<>>,
         \A h \in WaitList \ Mux : Elems(os'.list[h]) \subseteq Elems(os.list[h]),
         \A t \in Task : /\ "PEND_QUEUE" \notin os'.status[t]
                         /\ "TIMEOUT" \in os'.status[t] => call'[t] # NoCall
                         /\ call'[t] = call[t] \/ call'[t] = NoCall,
         \A t \in Task, h \in WaitList : t \in Elems(os'.list[h]) => call'[t] = call[t],
         \A m \in Mux : mux[m].count > 0 => "UNUSED" \notin os'.status[mux[m].owner],
         \A t \in Task : call'[t] # NoCall /\ os'.status[t] \cap {"PEND", "TIMEOUT"} = {}
                           => os.status[t] \cap {"PEND", "TIMEOUT"} = {}
  PROVE  MuxInv'
<1>1. WaitsInCall'
  BY DEF MuxInv, Waiters, WaitsInCall
<1>2. Waiters'
  BY <1>1 DEF Waiters
<1>3. Blocks' /\ Owned'
  BY DEF MuxInv, Blocks, Owned
<1>4. Waited'
  BY DEF MuxInv, Waited
<1>5. Granted'
  <2> SUFFICES ASSUME NEW t \in Task, NEW m \in Mux,
                      call'[t] = m, os'.status[t] \cap {"PEND", "TIMEOUT"} = {}
               PROVE  mux[m].count > 0 /\ mux[m].owner = t
    BY DEF Granted
  <2>1. call[t] = m /\ os.status[t] \cap {"PEND", "TIMEOUT"} = {}
    BY MuxHeads
  <2> QED BY <2>1 DEF MuxInv, Granted
<1> QED BY <1>2, <1>3, <1>4, <1>5 DEF MuxInv

LEMMA MuxWaitInv ==
  ASSUME MuxInv, NEW m \in Mux, NEW n \in MuxTimeouts, MuxWait(m, n)
  PROVE  MuxInv'
<1> DEFINE s == Inherit(os, mux[m].owner)
<1>0. PICK t : t = os.run
  OBVIOUS
<1>1. /\ FreeTaskContext /\ mux[m].used /\ mux[m].count > 0 /\ mux[m].owner # t /\ os.lock = 0
      /\ os' = Reschedule(osTaskWait(s, m, "PEND", n)) /\ call' = [call EXCEPT ![t] = m]
      /\ UNCHANGED <<mux, unusedMux>>
  BY <1>0 DEF MuxWait
<1>2. /\ TaskContext /\ t \in Task \ {Idle} /\ call[t] = NoCall
      /\ "UNUSED" \notin os.status[t] /\ "TIMEOUT" \notin os.status[t]
  BY <1>0, <1>1, Caller
<1>3. Lifted(os, s)
  BY <1>0, <1>1, <1>2, InheritLifts DEF MuxInv, Owned, Core
<1> HIDE DEF s
<1>4. m \in WaitList /\ n \in Ticks \cup {LOS_WAIT_FOREVER}
  BY MuxHeads
<1>5. /\ Core(os')
      /\ \A g \in WaitList : os'.list[g] = IF g = m THEN Append(os.list[m], t) ELSE os.list[g]
      /\ \A u \in Task \ {t} : os'.status[u] = os.status[u]
      /\ "PEND" \in os'.status[t]
      /\ os'.status[t] \subseteq os.status[t] \cup {"PEND", "TIMEOUT"}
  BY <1>0, <1>1, <1>2, <1>3, <1>4, LiftedBlock DEF MuxInv
<1>6. Elems(os'.list[m]) = Elems(os.list[m]) \cup {t}
  BY <1>2, <1>4, <1>5, ListTypes, AppendElems DEF MuxInv, Core
<1>7. Waiters'
  <2>1. call' \in [Task -> Mux \cup {NoCall}]
    BY <1>1 DEF MuxInv, Waiters
  <2>2. \A u \in Task : /\ "PEND_QUEUE" \notin os'.status[u]
                        /\ "TIMEOUT" \in os'.status[u] => call'[u] # NoCall
    BY <1>1, <1>2, <1>5, MuxHeads DEF MuxInv, Waiters
  <2>3. \A h \in WaitList : t \notin Elems(os.list[h])
    BY <1>2, MuxAssumption DEF MuxInv, Waiters, WaitsInCall
  <2>4. WaitsInCall'
    BY <1>1, <1>2, <1>5, <1>6, <2>3 DEF MuxInv, Waiters, WaitsInCall
  <2> QED BY <2>1, <2>2, <2>4 DEF Waiters
<1>8. Blocks'
  BY <1>1 DEF MuxInv, Blocks
<1>9. Owned'
  BY <1>1, <1>2, <1>5 DEF MuxInv, Owned
<1>10. Waited'
  <2>1. mux[m].owner \notin Elems(os'.list[m])
    <3>1. os.list[m] = <<>> => Elems(os.list[m]) = {}
      BY <1>4, ListTypes, ElemsEmpty DEF MuxInv, Core
    <3> QED BY <1>1, <1>6, <3>1 DEF MuxInv, Waited
  <2>2. \A g \in Mux \ {m} : os'.list[g] = os.list[g]
    BY <1>5, MuxHeads
  <2> QED BY <1>1, <2>1, <2>2 DEF MuxInv, Waited
<1>11. Granted'
  BY <1>1, <1>2, <1>5 DEF MuxInv, Granted, Waiters
<1> QED BY <1>5, <1>7, <1>8, <1>9, <1>10, <1>11 DEF MuxInv

LEMMA MuxPendReturnInv ==
  ASSUME MuxInv, NEW m \in Mux, MuxPendReturn(m)
  PROVE  MuxInv'
<1>0. PICK t : t = os.run
  OBVIOUS
<1>1. /\ TaskContext /\ os' = ClearTimeout(os) /\ call' = [call EXCEPT ![t] = NoCall]
      /\ UNCHANGED <<mux, unusedMux>> /\ call[t] = m /\ Core(os)
  BY <1>0 DEF MuxPendReturn, InCall, Return, MuxInv
<1>2. /\ Core(os') /\ t \in Task \ {Idle} /\ "TIMEOUT" \notin os'.status[t]
      /\ \A u \in Task \ {t} : os'.status[u] = os.status[u]
  BY <1>0, <1>1, ClearTimeoutStep DEF Steady
<1>3. /\ os'.list = os.list /\ os'.status[t] = os.status[t] \ {"TIMEOUT"}
  BY <1>0, <1>1, <1>2, DummyTask DEF ClearTimeout, Core, Consistent, KernelState
<1>4. \A h \in WaitList : t \notin Elems(os.list[h])
  BY <1>0, <1>1, CallerReady, ReadyOff DEF Core, Blocked, Off
<1>5. /\ call' \in [Task -> Mux \cup {NoCall}] /\ call'[t] = NoCall
      /\ \A u \in Task \ {t} : call'[u] = call[u]
  BY <1>1, <1>2 DEF MuxInv, Waiters
<1>6. \A u \in Task : /\ "PEND_QUEUE" \notin os'.status[u]
                      /\ "TIMEOUT" \in os'.status[u] => call'[u] # NoCall
                      /\ call'[u] # NoCall => os'.status[u] = os.status[u]
  BY <1>2, <1>3, <1>5 DEF MuxInv, Waiters
<1>7. \A k \in Mux : mux[k].count > 0 => "UNUSED" \notin os'.status[mux[k].owner]
  BY <1>2, <1>3 DEF MuxInv, Owned
<1>8. \A u \in Task, h \in WaitList : u \in Elems(os'.list[h]) => call'[u] = call[u]
  BY <1>3, <1>4, <1>5
<1> QED BY <1>1, <1>2, <1>3, <1>5, <1>6, <1>7, <1>8, MuxHeads, QuietStepInv

LEMMA MuxKernelInv ==
  ASSUME ~IsrSuspends, MuxInv, KernelStep, UNCHANGED <<mux, unusedMux>>
  PROVE  MuxInv'
<1>1. Core(os') /\ call' = call /\ \A u \in Task : os'.status[u] \cap Waits \subseteq os.status[u]
  BY KernelStepSteady DEF MuxInv, Steady, Eases
<1>2. /\ WaitsStay \/ \E t \in Task : ExpiresOnly(t)
      /\ \A u \in Task : "UNUSED" \in os'.status[u] => "UNUSED" \in os.status[u]
  BY KernelStepWaits DEF MuxInv
<1>3. \A h \in WaitList : /\ Elems(os'.list[h]) \subseteq Elems(os.list[h])
                          /\ os.list[h] = <<>> => os'.list[h] = <<>>
  <2>1. CASE WaitsStay
    BY <2>1 DEF WaitsStay
  <2>2. CASE \E t \in Task : ExpiresOnly(t)
    <3>1. PICK t \in Task : ExpiresOnly(t)
      BY <2>2
    <3>2. \A h \in WaitList : Elems(os'.list[h]) = Elems(os.list[h]) \ {t}
      BY <3>1, LeavesElems DEF ExpiresOnly, Leaves, MuxInv, Core
    <3>3. \A h \in WaitList : os'.list[h] = <<>> <=> Elems(os'.list[h]) = {}
      BY <1>1, ListTypes, ElemsEmpty DEF Core
    <3>4. \A h \in WaitList : os.list[h] = <<>> <=> Elems(os.list[h]) = {}
      BY ListTypes, ElemsEmpty DEF MuxInv, Core
    <3> QED BY <3>2, <3>3, <3>4
  <2> QED BY <1>2, <2>1, <2>2
<1>4. \A u \in Task : os'.status[u] \cap {"PEND", "TIMEOUT"} = {}
                        => os.status[u] \cap {"PEND", "TIMEOUT"} = {}
  <2>1. CASE WaitsStay
    BY <2>1 DEF WaitsStay, Waits
  <2>2. CASE \E t \in Task : ExpiresOnly(t)
    BY <2>2 DEF ExpiresOnly, Waits
  <2> QED BY <1>2, <2>1, <2>2
<1>5. \A u \in Task : /\ "PEND_QUEUE" \notin os'.status[u]
                      /\ "TIMEOUT" \in os'.status[u] => call'[u] # NoCall
  BY <1>1 DEF Waits, MuxInv, Waiters
<1>6. \A m \in Mux : mux[m].count > 0 => "UNUSED" \notin os'.status[mux[m].owner]
  BY <1>2 DEF MuxInv, Owned
<1> QED BY <1>1, <1>3, <1>4, <1>5, <1>6, MuxHeads, QuietStepInv DEF MuxInv, Waiters

LEMMA MuxKillInv ==
  ASSUME MuxInv, NEW t \in Task, Holds(t) = {}, DeleteStep(t), UNCHANGED <<mux, unusedMux>>
  PROVE  MuxInv'
<1>1. /\ Core(os') /\ os'.status[t] = {"UNUSED"}
      /\ \A u \in Task \ {t} : os'.status[u] = os.status[u]
      /\ call' = [call EXCEPT ![t] = NoCall]
  BY DeleteStepSteady DEF MuxInv, Steady
<1>2. \A h \in WaitList : Elems(os'.list[h]) = Elems(os.list[h]) \ {t}
  BY DeleteStepOrder, LeavesElems DEF MuxInv, Core
<1>3. \A h \in WaitList : os.list[h] = <<>> => os'.list[h] = <<>>
  <2>1. \A h \in WaitList : os'.list[h] = <<>> <=> Elems(os'.list[h]) = {}
    BY <1>1, ListTypes, ElemsEmpty DEF Core
  <2>2. \A h \in WaitList : os.list[h] = <<>> <=> Elems(os.list[h]) = {}
    BY ListTypes, ElemsEmpty DEF MuxInv, Core
  <2> QED BY <1>2, <2>1, <2>2
<1>4. \A m \in Mux : mux[m].count > 0 => "UNUSED" \notin os'.status[mux[m].owner]
  <2>1. \A m \in Mux : mux[m].count > 0 => mux[m].owner \in Task \ {t}
    BY DEF Holds, MuxInv, Owned
  <2> QED BY <1>1, <2>1 DEF MuxInv, Owned
<1>5. /\ call' \in [Task -> Mux \cup {NoCall}] /\ call'[t] = NoCall
      /\ \A u \in Task \ {t} : call'[u] = call[u]
  BY <1>1 DEF MuxInv, Waiters
<1> QED BY <1>1, <1>2, <1>3, <1>4, <1>5, MuxHeads, QuietStepInv, ZenonT(60) DEF MuxInv, Waiters

\* Without a waiter the caller's priority goes down and it runs on.
LEMMA MuxFreeInv ==
  ASSUME MuxInv, NEW m \in Mux, MuxRelease(m), os.list[m] = <<>>
  PROVE  /\ MuxInv'
         /\ Lifted(os, os') /\ mux' = [mux EXCEPT ![m].count = 0] /\ call' = call
<1> DEFINE s == RestorePriority(os, m)
<1>1. /\ FreeTaskContext /\ mux[m].used /\ mux[m].count = 1 /\ mux[m].owner = os.run
      /\ mux' = [mux EXCEPT ![m].count = 0] /\ os' = s
      /\ UNCHANGED <<call, unusedMux>>
  BY DEF MuxRelease, Holds
<1>2. /\ TaskContext /\ os.run \in Task \ {Idle} /\ call[os.run] = NoCall
  BY <1>1, Caller
<1>3. Lifted(os, os') /\ Core(os')
  <2>1. mux[m].prio \in Prio
    BY DEF MuxInv, Blocks, MuxCb
  <2> QED BY <1>1, <1>2, <2>1, RestoreLifts, LiftedCore DEF MuxInv, Core
<1> HIDE DEF s
<1>4. os'.status = os.status /\ \A h \in WaitList : os'.list[h] = os.list[h]
  BY <1>3 DEF Lifted
<1>5. /\ mux' \in [Mux -> MuxCb] /\ mux'[m].count = 0 /\ mux'[m].used
      /\ \A g \in Mux \ {m} : mux'[g] = mux[g]
  BY <1>1, MuxHeads, SMTT(60) DEF MuxInv, Blocks, MuxCb
<1>6. Waiters'
  BY <1>1, <1>4 DEF MuxInv, Waiters, WaitsInCall
<1>7. Blocks'
  BY <1>1, <1>5, ElemsType DEF MuxInv, Blocks
<1>8. Owned'
  BY <1>4, <1>5 DEF MuxInv, Owned
<1>9. Waited'
  BY <1>4, <1>5, MuxHeads DEF MuxInv, Waited
<1>10. Granted'
  <2>1. \A t \in Task : call[t] = m => os.status[t] \cap {"PEND", "TIMEOUT"} # {}
    BY <1>1, <1>2, MuxHeads, SMTT(60) DEF MuxInv, Granted
  <2> QED BY <1>1, <1>4, <1>5, <2>1 DEF MuxInv, Granted
<1> QED BY <1>1, <1>3, <1>6, <1>7, <1>8, <1>9, <1>10 DEF MuxInv

\* With a waiter the mutex passes to the first one.
LEMMA MuxHandFacts ==
  ASSUME MuxInv, NEW m \in Mux, MuxRelease(m), os.list[m] # <<>>, NEW t, t = Head(os.list[m])
  PROVE  /\ Core(os') /\ Leaves(os, os', t) /\ call' = call /\ unusedMux' = unusedMux
         /\ \A u \in Task \ {t} : os'.status[u] = os.status[u]
         /\ os'.status[t] \ {"READY"} = os.status[t] \ {"PEND", "TIMEOUT"}
         /\ mux' \in [Mux -> MuxCb] /\ mux'[m].used /\ mux'[m].owner = t
         /\ mux'[m].count = 1 /\ mux[m].count = 1 /\ mux[m].owner = os.run
         /\ mux'[m].prio = RestorePriority(os, m).prio[t]
         /\ \A g \in Mux \ {m} : mux'[g] = mux[g]
         /\ FreeTaskContext
<1> DEFINE s == RestorePriority(os, m)
<1>1. /\ FreeTaskContext /\ mux[m].used /\ mux[m].count = 1 /\ mux[m].owner = os.run
      /\ mux' = [mux EXCEPT ![m].owner = t, ![m].prio = s.prio[t]]
      /\ os' = Reschedule(osTaskWake(s, t, "PEND"))
      /\ UNCHANGED <<call, unusedMux>>
  BY DEF MuxRelease, Holds
<1>2. TaskContext /\ os.run \in Task \ {Idle}
  BY <1>1, Caller
<1>3. Lifted(os, s)
  <2>1. mux[m].prio \in Prio
    BY DEF MuxInv, Blocks, MuxCb
  <2> QED BY <1>1, <1>2, <2>1, RestoreLifts DEF MuxInv, Core
<1>4. t \in Task /\ "PEND" \in os.status[t]
  BY FirstWaiter
<1>5. s.prio[t] \in Prio
  BY <1>3, <1>4 DEF Lifted, Consistent, KernelState
<1> HIDE DEF s
<1>6. /\ Core(os') /\ Leaves(os, os', t)
      /\ \A u \in Task \ {t} : os'.status[u] = os.status[u]
      /\ os'.status[t] \ {"READY"} = os.status[t] \ {"PEND", "TIMEOUT"}
  BY <1>1, <1>2, <1>3, <1>4, LiftedWake DEF MuxInv
<1>7. /\ mux' \in [Mux -> MuxCb] /\ mux'[m].used /\ mux'[m].owner = t
      /\ mux'[m].count = 1 /\ mux'[m].prio = s.prio[t]
      /\ \A g \in Mux \ {m} : mux'[g] = mux[g]
  BY <1>1, <1>4, <1>5 DEF MuxInv, Blocks, MuxCb
<1> QED BY <1>1, <1>6, <1>7, ZenonT(30) DEF s

LEMMA MuxHandInv ==
  ASSUME MuxInv, NEW m \in Mux, MuxRelease(m), os.list[m] # <<>>
  PROVE  MuxInv'
<1> PICK t : t = Head(os.list[m])
  OBVIOUS
<1>1. /\ t \in Task \ {Idle} /\ t \in Elems(os.list[m]) /\ call[t] = m
      /\ "PEND" \in os.status[t] /\ "UNUSED" \notin os.status[t]
  BY FirstWaiter
<1>2. /\ Core(os') /\ Leaves(os, os', t) /\ call' = call /\ unusedMux' = unusedMux
      /\ \A u \in Task \ {t} : os'.status[u] = os.status[u]
      /\ os'.status[t] \ {"READY"} = os.status[t] \ {"PEND", "TIMEOUT"}
      /\ mux' \in [Mux -> MuxCb] /\ mux'[m].used /\ mux'[m].owner = t
      /\ mux'[m].count = 1 /\ mux[m].count = 1 /\ mux[m].owner = os.run
      /\ \A g \in Mux \ {m} : mux'[g] = mux[g]
      /\ FreeTaskContext
  BY MuxHandFacts
<1>3. call[os.run] = NoCall /\ os.run \in Task
  BY <1>2, Caller
<1>4. \A h \in WaitList : Elems(os'.list[h]) = Elems(os.list[h]) \ {t}
  BY <1>2, LeavesElems DEF MuxInv, Core
<1>5. Waiters'
  <2>1. \A u \in Task : /\ "PEND_QUEUE" \notin os'.status[u]
                        /\ "TIMEOUT" \in os'.status[u] => call'[u] # NoCall
    BY <1>1, <1>2 DEF MuxInv, Waiters
  <2>2. WaitsInCall'
    BY <1>2, <1>4 DEF MuxInv, Waiters, WaitsInCall
  <2> QED BY <1>2, <2>1, <2>2 DEF MuxInv, Waiters
<1>6. Blocks'
  BY <1>2, ElemsType DEF MuxInv, Blocks
<1>7. Owned'
  <2>1. \A u \in Task : "UNUSED" \in os'.status[u] => "UNUSED" \in os.status[u]
    BY <1>2
  <2> QED BY <1>1, <1>2, <2>1 DEF MuxInv, Owned
<1>8. Waited'
  <2>1. \A g \in Mux \ {m} : os'.list[g] # <<>> => os.list[g] # <<>>
    BY <1>1, <1>2, UnlinkOther, MuxHeads DEF Leaves, MuxInv, Waiters, WaitsInCall
  <2>2. m \in WaitList
    BY MuxHeads
  <2> QED BY <1>2, <1>4, <2>1, <2>2, MuxHeads DEF MuxInv, Waited
<1>9. Granted'
  <2>1. \A u \in Task : call[u] = m => os.status[u] \cap {"PEND", "TIMEOUT"} # {}
    BY <1>2, <1>3, MuxHeads DEF MuxInv, Granted
  <2> QED BY <1>1, <1>2, <2>1 DEF MuxInv, Granted
<1> QED BY <1>2, <1>5, <1>6, <1>7, <1>8, <1>9 DEF MuxInv

LEMMA MuxNextInv ==
  ASSUME ~IsrSuspends, MuxInv, [MuxNext]_vars
  PROVE  MuxInv'
<1>1. CASE MuxCall
  BY <1>1, MuxCreateInv, MuxDeleteInv, MuxLockInv, MuxNestInv, MuxWaitInv, MuxPendReturnInv,
     MuxFreeInv, MuxHandInv DEF MuxCall
<1>2. CASE KernelStep /\ UNCHANGED <<mux, unusedMux>>
  BY <1>2, MuxKernelInv
<1>3. CASE \E t \in Task : Holds(t) = {} /\ DeleteStep(t) /\ UNCHANGED <<mux, unusedMux>>
  BY <1>3, MuxKillInv
<1>4. CASE UNCHANGED vars
  BY <1>4 DEF vars, MuxInv, Waiters, Blocks, Owned, Waited, Granted, WaitsInCall
<1> QED BY <1>1, <1>2, <1>3, <1>4 DEF MuxNext

----------------------------------------------------------------------------
\* What each step is for the abstract mutex.

Owners == [m \in Mux |-> IF mux[m].count > 0 THEN mux[m].owner ELSE NoOwner]
Depths == [m \in Mux |-> mux[m].count]
Lines  == [m \in Mux |-> os.list[m]]
Views  == [t \in User |-> MuxView(t)]

AbstractStep == [Abstract!Next]_(Abstract!mvars)

LEMMA ViewsAre == Views = [t \in User |-> View(t)] /\ Views' = [t \in User |-> View(t)']
BY DEF Views, MuxView, View

LEMMA Users == User \subseteq Task /\ \A t \in Task : t # Idle => t \in User
BY DEF Task

LEMMA ViewsSame == (\A t \in Task : SameView(t)) => Views' = Views
BY ViewsAre, Users DEF SameView

LEMMA ViewsOne ==
  ASSUME NEW t \in User, \A u \in Task \ {t} : SameView(u)
  PROVE  Views' = [Views EXCEPT ![t] = View(t)']
BY ViewsAre, Users DEF SameView

LEMMA LinesSame == (\A m \in Mux : os'.list[m] = os.list[m]) => Lines' = Lines
BY DEF Lines

LEMMA OwnersSame ==
  (\A m \in Mux : /\ mux'[m].count = mux[m].count
                  /\ mux[m].count > 0 => mux'[m].owner = mux[m].owner)
    => Owners' = Owners /\ Depths' = Depths
BY DEF Owners, Depths

\* The control block m changes.
LEMMA OwnersOne ==
  ASSUME NEW m \in Mux, \A g \in Mux \ {m} : mux'[g] = mux[g],
         NEW o, o = IF mux'[m].count > 0 THEN mux'[m].owner ELSE NoOwner,
         NEW n, n = mux'[m].count
  PROVE  Owners' = [Owners EXCEPT ![m] = o] /\ Depths' = [Depths EXCEPT ![m] = n]
<1> DEFINE O(g) == IF mux[g].count > 0 THEN mux[g].owner ELSE NoOwner
<1>1. O(m)' = o /\ \A g \in Mux \ {m} : O(g)' = O(g)
  OBVIOUS
<1>2. Owners = [g \in Mux |-> O(g)] /\ Owners' = [g \in Mux |-> O(g)']
  BY DEF Owners
<1> HIDE DEF O
<1>3. Owners' = [Owners EXCEPT ![m] = o]
  BY <1>1, <1>2
<1>4. Depths' = [Depths EXCEPT ![m] = n]
  BY DEF Depths
<1> QED BY <1>3, <1>4

\* The calls of the kernel that touch neither lists nor statuses nor calls.
LEMMA CalmViews ==
  ASSUME os'.status = os.status, \A h \in WaitList : os'.list[h] = os.list[h], call' = call
  PROVE  Lines' = Lines /\ Views' = Views
BY LinesSame, ViewsSame, ViewKept, MuxHeads

LEMMA StutterStep ==
  ASSUME Owners' = Owners, Depths' = Depths, Lines' = Lines, Views' = Views
  PROVE  AbstractStep
BY DEF AbstractStep, Abstract!mvars, Owners, Depths, Lines, Views

LEMMA LockStepOf ==
  ASSUME NEW t \in User, NEW m \in Mux, Views[t] = "out",
         Owners[m] \in {NoOwner, t}, Depths[m] < MaxNest,
         Owners' = [Owners EXCEPT ![m] = t], Depths' = [Depths EXCEPT ![m] = @ + 1],
         Lines' = Lines, Views' = Views
  PROVE  AbstractStep
<1>1. Abstract!Lock(t, m)
  BY DEF Abstract!Lock, Owners, Depths, Lines, Views
<1> QED BY <1>1 DEF AbstractStep, Abstract!Next

LEMMA WaitStepOf ==
  ASSUME NEW t \in User, NEW m \in Mux, Views[t] = "out", Owners[m] \notin {NoOwner, t},
         Lines' = [Lines EXCEPT ![m] = Append(@, t)], Views' = [Views EXCEPT ![t] = "waits"],
         Owners' = Owners, Depths' = Depths
  PROVE  AbstractStep
<1>1. Abstract!Wait(t, m)
  BY DEF Abstract!Wait, Owners, Depths, Lines, Views
<1> QED BY <1>1 DEF AbstractStep, Abstract!Next

LEMMA UnnestStepOf ==
  ASSUME NEW t \in User, NEW m \in Mux, Views[t] = "out", Owners[m] = t, Depths[m] > 1,
         Depths' = [Depths EXCEPT ![m] = @ - 1],
         Owners' = Owners, Lines' = Lines, Views' = Views
  PROVE  AbstractStep
<1>1. Abstract!Unnest(t, m)
  BY DEF Abstract!Unnest, Owners, Depths, Lines, Views
<1> QED BY <1>1 DEF AbstractStep, Abstract!Next

LEMMA ReleaseStepOf ==
  ASSUME NEW t \in User, NEW m \in Mux, Views[t] = "out", Owners[m] = t, Depths[m] = 1,
         Lines[m] = <<>>,
         Owners' = [Owners EXCEPT ![m] = NoOwner], Depths' = [Depths EXCEPT ![m] = 0],
         Lines' = Lines, Views' = Views
  PROVE  AbstractStep
<1>1. Abstract!Release(t, m)
  BY DEF Abstract!Release, Owners, Depths, Lines, Views
<1> QED BY <1>1 DEF AbstractStep, Abstract!Next

LEMMA HandOverStepOf ==
  ASSUME NEW t \in User, NEW m \in Mux, Views[t] = "out", Owners[m] = t, Depths[m] = 1,
         Lines[m] # <<>>,
         Owners' = [Owners EXCEPT ![m] = Head(Lines[m])],
         Lines' = [Lines EXCEPT ![m] = Tail(@)],
         Views' = [Views EXCEPT ![Head(Lines[m])] = "granted"], Depths' = Depths
  PROVE  AbstractStep
<1>1. Abstract!HandOver(t, m)
  BY DEF Abstract!HandOver, Owners, Depths, Lines, Views
<1> QED BY <1>1 DEF AbstractStep, Abstract!Next

LEMMA LeaveStepOf ==
  ASSUME NEW t \in User,
         Views[t] = "expired" \/ (Views[t] = "granted" /\ \E m \in Mux : Owners[m] = t),
         Views' = [Views EXCEPT ![t] = "out"],
         Owners' = Owners, Depths' = Depths, Lines' = Lines
  PROVE  AbstractStep
<1>1. Abstract!Leave(t)
  BY DEF Abstract!Leave, Owners, Depths, Lines, Views
<1> QED BY <1>1 DEF AbstractStep, Abstract!Next

LEMMA QuitStepOf ==
  ASSUME NEW t \in User, NEW m \in Mux, Quits(Mux, t, m), mux' = mux,
         NEW w, w = "expired" \/ w = "out", View(t)' = w
  PROVE  AbstractStep
<1> DEFINE left(i) == SubSeq(os.list[m], 1, i - 1) \o SubSeq(os.list[m], i + 1, Len(os.list[m]))
<1>1. PICK i \in DOMAIN os.list[m] : os.list[m][i] = t /\ os'.list[m] = left(i)
  BY DEF Quits
<1>2. Lines' = [Lines EXCEPT ![m] = left(i)]
  BY <1>1 DEF Quits, Lines
<1>3. /\ Owners' = Owners /\ Depths' = Depths /\ Views[t] = "waits"
      /\ Views' = [Views EXCEPT ![t] = w]
  BY OwnersSame, ViewsOne, ViewsAre DEF Quits
<1>4. Abstract!Quit(t, m)
  <2>1. /\ Lines[m] = os.list[m] /\ i \in DOMAIN Lines[m] /\ Lines[m][i] = t
        /\ Lines' = [Lines EXCEPT ![m] = SubSeq(@, 1, i - 1) \o SubSeq(@, i + 1, Len(@))]
    BY <1>1, <1>2 DEF Lines
  <2> HIDE DEF left
  <2> QED BY <1>3, <2>1 DEF Abstract!Quit, Owners, Depths, Lines, Views
<1> QED BY <1>4 DEF AbstractStep, Abstract!Next

LEMMA CallerViews ==
  ASSUME MuxInv, FreeTaskContext, NEW t, t = os.run
  PROVE  /\ t \in User /\ t \in Task /\ Views[t] = "out" /\ call[t] = NoCall
         /\ \A m \in Mux : mux[m].count > 0 => Owners[m] = mux[m].owner /\ Owners[m] # NoOwner
         /\ \A m \in Mux : mux[m].count = 0 => Owners[m] = NoOwner
         /\ \A m \in Mux : Depths[m] = mux[m].count /\ Lines[m] = os.list[m]
<1>1. t \in User /\ t \in Task /\ call[t] = NoCall
  BY Caller
<1>2. Views[t] = "out"
  BY <1>1 DEF Views, MuxView
<1> QED BY <1>1, <1>2, MuxAssumption DEF MuxInv, Owned, Owners, Depths, Lines

LEMMA MuxIdleAbstract ==
  ASSUME MuxInv, LOS_MuxCreate \/ \E m \in Mux : LOS_MuxDelete(m)
  PROVE  AbstractStep
<1>1. os' = os /\ call' = call
  BY DEF LOS_MuxCreate, LOS_MuxDelete
<1>2. \A g \in Mux : \/ mux'[g].count = mux[g].count /\ mux'[g].owner = mux[g].owner
                     \/ mux[g].count = 0 /\ mux'[g].count = 0
  <2>1. CASE LOS_MuxCreate
    <3> PICK h : h = Head(unusedMux)
      OBVIOUS
    <3>1. mux' = [mux EXCEPT ![h] = Fresh(TRUE)] /\ unusedMux # <<>>
      BY <2>1 DEF LOS_MuxCreate
    <3>2. h \in Mux /\ h \in Elems(unusedMux)
      BY <3>1, HeadTailElems DEF MuxInv, Blocks
    <3>3. mux[h].count = 0
      BY <3>2 DEF MuxInv, Blocks
    <3>4. mux'[h].count = 0 /\ \A g \in Mux \ {h} : mux'[g] = mux[g]
      BY <3>1, <3>2 DEF MuxInv, Blocks, Fresh
    <3> QED BY <3>3, <3>4
  <2>2. CASE \E m \in Mux : LOS_MuxDelete(m)
    <3>1. PICK m \in Mux : mux' = [mux EXCEPT ![m].used = FALSE]
      BY <2>2 DEF LOS_MuxDelete
    <3>2. mux'[m].count = mux[m].count /\ mux'[m].owner = mux[m].owner
      BY <3>1 DEF MuxInv, Blocks, MuxCb
    <3>3. \A g \in Mux \ {m} : mux'[g] = mux[g]
      BY <3>1 DEF MuxInv, Blocks
    <3> QED BY <3>2, <3>3
  <2> QED BY <2>1, <2>2
<1>3. Owners' = Owners /\ Depths' = Depths
  BY <1>2, OwnersSame
<1> QED BY <1>1, <1>3, CalmViews, StutterStep

LEMMA MuxLockAbstract ==
  ASSUME MuxInv, NEW m \in Mux, MuxLock(m) \/ MuxLockAgain(m)
  PROVE  AbstractStep
<1>0. PICK t : t = os.run
  OBVIOUS
<1>1. FreeTaskContext /\ os' = os /\ call' = call
  BY DEF MuxLock, MuxLockAgain
<1>2. PICK n \in 0 .. MaxNest : mux[m].count = n
  BY DEF MuxInv, Blocks, MuxCb
<1>3. /\ n < MaxNest
      /\ n > 0 => mux[m].owner = t
      /\ mux'[m].owner = t /\ mux'[m].count = n + 1 /\ \A g \in Mux \ {m} : mux'[g] = mux[g]
  <2>1. CASE MuxLock(m)
    <3>1. n = 0
      BY <1>2, <2>1 DEF MuxLock
    <3>2. mux'[m].owner = t /\ mux'[m].count = 1 /\ \A g \in Mux \ {m} : mux'[g] = mux[g]
      BY <1>0, <2>1 DEF MuxLock, MuxInv, Blocks
    <3> QED BY <3>1, <3>2, MuxHeads
  <2>2. CASE MuxLockAgain(m)
    <3>1. mux' = [mux EXCEPT ![m].count = n + 1] /\ n < MaxNest /\ mux[m].owner = t
      BY <1>0, <1>2, <2>2 DEF MuxLockAgain, Holds, MuxInv, Blocks
    <3>2. mux'[m].owner = t /\ mux'[m].count = n + 1 /\ \A g \in Mux \ {m} : mux'[g] = mux[g]
      BY <3>1 DEF MuxInv, Blocks, MuxCb
    <3> QED BY <3>1, <3>2
  <2> QED BY <2>1, <2>2
<1>4. n + 1 > 0 /\ (n > 0 \/ n = 0)
  BY MuxHeads
<1>5. /\ Owners' = [Owners EXCEPT ![m] = t] /\ Depths' = [Depths EXCEPT ![m] = n + 1]
  BY <1>3, <1>4, OwnersOne
<1>6. /\ t \in User /\ Views[t] = "out" /\ Depths[m] = n
      /\ Owners[m] \in {NoOwner, t}
  BY <1>0, <1>1, <1>2, <1>3, <1>4, CallerViews
<1>7. Depths' = [Depths EXCEPT ![m] = @ + 1]
  BY <1>5, <1>6 DEF Depths
<1>8. Lines' = Lines /\ Views' = Views
  BY <1>1, CalmViews
<1> QED BY <1>3, <1>5, <1>6, <1>7, <1>8, LockStepOf

LEMMA MuxWaitAbstract ==
  ASSUME MuxInv, NEW m \in Mux, NEW n \in MuxTimeouts, MuxWait(m, n)
  PROVE  AbstractStep
<1> DEFINE s == Inherit(os, mux[m].owner)
<1>0. PICK t : t = os.run
  OBVIOUS
<1>1. /\ FreeTaskContext /\ mux[m].count > 0 /\ mux[m].owner # t /\ os.lock = 0
      /\ os' = Reschedule(osTaskWait(s, m, "PEND", n)) /\ call' = [call EXCEPT ![t] = m]
      /\ mux' = mux
  BY <1>0 DEF MuxWait
<1>2. /\ TaskContext /\ t \in Task \ {Idle} /\ call[t] = NoCall /\ "TIMEOUT" \notin os.status[t]
      /\ Core(os) /\ Consistent(os) /\ DOMAIN call = Task /\ NoCall \notin WaitList
  BY <1>0, <1>1, Caller, MuxAssumption DEF MuxInv, Core, Waiters
<1>3. Lifted(os, s)
  BY <1>0, <1>1, <1>2, InheritLifts DEF MuxInv, Owned
<1> HIDE DEF s
<1>4. m \in WaitList /\ n \in Ticks \cup {LOS_WAIT_FOREVER}
  BY MuxHeads
<1>5. /\ \A g \in WaitList : os'.list[g] = IF g = m THEN Append(os.list[m], t) ELSE os.list[g]
      /\ \A u \in Task \ {t} : os'.status[u] = os.status[u]
  BY <1>0, <1>1, <1>2, <1>3, <1>4, LiftedBlock
<1>6. View(t) = "out" /\ View(t)' = "waits" /\ \A u \in Task \ {t} : SameView(u)
  BY <1>1, <1>2, <1>4, <1>5, WaitViews, ZenonT(60)
<1>7. Lines' = [Lines EXCEPT ![m] = Append(@, t)]
  BY <1>5, MuxHeads DEF Lines
<1>8. /\ t \in User /\ Views[t] = "out" /\ Owners[m] \notin {NoOwner, t}
  BY <1>0, <1>1, CallerViews
<1>9. Views' = [Views EXCEPT ![t] = "waits"]
  BY <1>6, <1>8, ViewsOne
<1> QED BY <1>1, <1>7, <1>8, <1>9, OwnersSame, WaitStepOf

LEMMA MuxPendReturnAbstract ==
  ASSUME MuxInv, NEW m \in Mux, MuxPendReturn(m)
  PROVE  AbstractStep
<1>0. PICK t : t = os.run
  OBVIOUS
<1>1. TaskContext /\ call[t] = m /\ os' = ClearTimeout(os) /\ Return /\ mux' = mux
  BY <1>0 DEF MuxPendReturn, InCall
<1>2. Core(os) /\ DOMAIN call = Task /\ call[t] # NoCall
  BY <1>1, MuxHeads DEF MuxInv, Waiters
<1>3. /\ t \in Task /\ View(t) \in {"granted", "expired"} /\ View(t)' = "out"
      /\ \A h \in WaitList : os'.list[h] = os.list[h]
      /\ \A u \in Task \ {t} : SameView(u)
  BY <1>0, <1>1, <1>2, ReturnViews
<1>4. t \in User /\ os.status[t] \cap Blocked = {}
  BY <1>0, <1>1, <1>2, CallerReady, Users
<1>5. View(t) = "granted" => \E g \in Mux : Owners[g] = t
  <2> SUFFICES ASSUME View(t) = "granted" PROVE Owners[m] = t
    OBVIOUS
  <2>1. "TIMEOUT" \notin os.status[t]
    <3>1. ~Waiting(t)
      BY <1>2 DEF View
    <3> QED BY <1>2, <3>1 DEF View, Expired
  <2>2. mux[m].count > 0 /\ mux[m].owner = t
    BY <1>1, <1>3, <1>4, <2>1 DEF MuxInv, Granted, Blocked
  <2> QED BY <2>2 DEF Owners
<1>6. /\ Views[t] = View(t) /\ Views' = [Views EXCEPT ![t] = "out"] /\ Lines' = Lines
  BY <1>3, <1>4, ViewsAre, ViewsOne, LinesSame, MuxHeads
<1> QED BY <1>1, <1>3, <1>4, <1>5, <1>6, OwnersSame, LeaveStepOf

LEMMA MuxUnnestAbstract ==
  ASSUME MuxInv, NEW m \in Mux, MuxUnnest(m)
  PROVE  AbstractStep
<1>0. PICK t : t = os.run
  OBVIOUS
<1>1. PICK n \in 0 .. MaxNest : mux[m].count = n
  BY DEF MuxInv, Blocks, MuxCb
<1>2. /\ FreeTaskContext /\ os' = os /\ call' = call /\ n > 1 /\ mux[m].owner = t
      /\ mux' = [mux EXCEPT ![m].count = n - 1]
  BY <1>0, <1>1 DEF MuxUnnest, Holds, MuxInv, Blocks
<1>3. /\ mux'[m].count = n - 1 /\ mux'[m].owner = t /\ \A g \in Mux \ {m} : mux'[g] = mux[g]
  BY <1>2 DEF MuxInv, Blocks, MuxCb
<1>4. n - 1 > 0 /\ n > 0
  BY <1>2, MuxHeads
<1>5. Owners' = [Owners EXCEPT ![m] = t] /\ Depths' = [Depths EXCEPT ![m] = n - 1]
  BY <1>3, <1>4, OwnersOne
<1>6. t \in User /\ Views[t] = "out" /\ Owners[m] = t /\ Depths[m] = n
  BY <1>0, <1>1, <1>2, <1>4, CallerViews
<1>7. Owners' = Owners
  BY <1>5, <1>6 DEF Owners
<1>8. Depths' = [Depths EXCEPT ![m] = @ - 1]
  BY <1>5, <1>6 DEF Depths
<1>9. Lines' = Lines /\ Views' = Views
  BY <1>2, CalmViews
<1> QED BY <1>2, <1>6, <1>7, <1>8, <1>9, UnnestStepOf

LEMMA MuxReleaseAbstract ==
  ASSUME MuxInv, NEW m \in Mux, MuxRelease(m)
  PROVE  AbstractStep
<1>0. PICK t : t = os.run
  OBVIOUS
<1>1. FreeTaskContext /\ mux[m].count = 1 /\ mux[m].owner = t
  BY <1>0 DEF MuxRelease, Holds
<1>2. /\ t \in User /\ Views[t] = "out" /\ Owners[m] = t /\ Depths[m] = 1
      /\ Lines[m] = os.list[m]
  BY <1>0, <1>1, CallerViews
<1>3. CASE os.list[m] = <<>>
  <2>1. Lifted(os, os') /\ mux' = [mux EXCEPT ![m].count = 0] /\ call' = call
    BY <1>3, MuxFreeInv
  <2>2. mux'[m].count = 0 /\ \A g \in Mux \ {m} : mux'[g] = mux[g]
    BY <2>1 DEF MuxInv, Blocks, MuxCb
  <2>3. Owners' = [Owners EXCEPT ![m] = NoOwner] /\ Depths' = [Depths EXCEPT ![m] = 0]
    BY <2>2, OwnersOne
  <2>4. Lines' = Lines /\ Views' = Views
    BY <2>1, CalmViews DEF Lifted
  <2> QED BY <1>2, <1>3, <2>3, <2>4, ReleaseStepOf
<1>4. CASE os.list[m] # <<>>
  <2>1. PICK u : u = Head(os.list[m])
    OBVIOUS
  <2>2. u \in Task \ {Idle} /\ u \in Elems(os.list[m]) /\ call[u] = m /\ u \in User
    BY <1>4, <2>1, FirstWaiter, Users
  <2>3. /\ Leaves(os, os', u) /\ call' = call
        /\ \A v \in Task \ {u} : os'.status[v] = os.status[v]
        /\ os'.status[u] \ {"READY"} = os.status[u] \ {"PEND", "TIMEOUT"}
        /\ mux'[m].owner = u /\ mux'[m].count = 1
        /\ \A g \in Mux \ {m} : mux'[g] = mux[g]
    BY <1>4, <2>1, MuxHandFacts
  <2>4. View(u)' = "granted" /\ \A v \in Task \ {u} : SameView(v)
    <3>1. "TIMEOUT" \notin os'.status[u] /\ call'[u] # NoCall
      BY <2>2, <2>3, MuxHeads
    <3> QED BY <2>2, <2>3, <3>1, LeavesViews DEF MuxInv, Core
  <2>5. os'.list[m] = Tail(os.list[m])
    BY <1>4, <2>1, <2>3, MuxHeads, ListTypes, UnlinkFirst DEF Leaves, MuxInv, Core
  <2>6. \A g \in Mux \ {m} : os'.list[g] = os.list[g]
    BY <2>2, <2>3, UnlinkOther, MuxHeads DEF Leaves, MuxInv, Waiters, WaitsInCall
  <2>7. Lines' = [Lines EXCEPT ![m] = Tail(@)] /\ Views' = [Views EXCEPT ![u] = "granted"]
    BY <2>2, <2>4, <2>5, <2>6, ViewsOne DEF Lines
  <2>8. Owners' = [Owners EXCEPT ![m] = u] /\ Depths' = [Depths EXCEPT ![m] = 1]
    BY <2>3, OwnersOne
  <2>9. Depths' = Depths
    BY <1>2, <2>8 DEF Depths
  <2> QED BY <1>2, <1>4, <2>1, <2>7, <2>8, <2>9, HandOverStepOf
<1> QED BY <1>3, <1>4

LEMMA MuxKillAbstract ==
  ASSUME MuxInv, NEW t \in Task, Holds(t) = {}, DeleteStep(t), mux' = mux
  PROVE  AbstractStep
<1>1. /\ WaitsInCall /\ Core(os) /\ NoCall \notin WaitList /\ Mux \subseteq WaitList
      /\ call \in [Task -> Mux \cup {NoCall}]
  BY MuxAssumption DEF MuxInv, Waiters
<1>2. /\ View(t)' = "out"
      /\ \/ \E m \in Mux : Quits(Mux, t, m)
         \/ /\ View(t) \in {"out", "granted", "expired"}
            /\ \A m \in Mux : os'.list[m] = os.list[m]
            /\ \A u \in Task \ {t} : SameView(u)
  BY <1>1, DeleteStepViews
<1>3. t \in User
  BY Users, TcbAssumption DEF DeleteStep, LOS_TaskDelete, CHECK_TASKID
<1>4. CASE \E m \in Mux : Quits(Mux, t, m)
  BY <1>2, <1>3, <1>4, QuitStepOf
<1>5. CASE ~ \E m \in Mux : Quits(Mux, t, m)
  <2>1. /\ Owners' = Owners /\ Depths' = Depths /\ Lines' = Lines
        /\ Views' = [Views EXCEPT ![t] = "out"] /\ Views[t] = View(t)
    BY <1>2, <1>3, <1>5, OwnersSame, LinesSame, ViewsOne, ViewsAre
  <2>2. CASE View(t) = "out"
    <3>1. Views' = Views
      BY <1>2, <1>5, <2>2, ViewsSame DEF SameView
    <3> QED BY <2>1, <3>1, StutterStep
  <2>3. CASE View(t) = "expired"
    BY <1>3, <2>1, <2>3, LeaveStepOf
  <2>4. View(t) # "granted"
    <3> SUFFICES ASSUME View(t) = "granted" PROVE FALSE
      OBVIOUS
    <3>1. call[t] # NoCall /\ ~Waiting(t) /\ ~Expired(t)
      BY DEF View
    <3>2. os.status[t] \cap {"PEND", "TIMEOUT"} = {}
      <4>1. os.status[t] \cap {"PEND", "PEND_QUEUE"} = {}
        BY <1>1, <3>1, PendsOnList DEF Waiting, Core
      <4> QED BY <3>1, <4>1 DEF Expired
    <3>3. call[t] \in Mux
      BY <1>1, <3>1
    <3>4. mux[call[t]].count > 0 /\ mux[call[t]].owner = t
      BY <3>2, <3>3 DEF MuxInv, Granted
    <3> QED BY <3>3, <3>4 DEF Holds
  <2> QED BY <1>2, <1>5, <2>2, <2>3, <2>4
<1> QED BY <1>4, <1>5

LEMMA MuxNextAbstract ==
  ASSUME ~IsrSuspends, MuxInv, [MuxNext]_vars
  PROVE  AbstractStep
<1>1. CASE MuxCall
  BY <1>1, MuxIdleAbstract, MuxLockAbstract, MuxWaitAbstract, MuxPendReturnAbstract,
     MuxUnnestAbstract, MuxReleaseAbstract DEF MuxCall
<1>2. CASE KernelStep /\ UNCHANGED <<mux, unusedMux>>
  <2>0. /\ WaitsInCall /\ Core(os) /\ NoCall \notin WaitList /\ Mux \subseteq WaitList
        /\ call \in [Task -> Mux \cup {NoCall}]
    BY MuxAssumption DEF MuxInv, Waiters
  <2>1. \/ /\ \A m \in Mux : os'.list[m] = os.list[m]
           /\ \A t \in Task : SameView(t)
        \/ \E t \in Task, m \in Mux : Quits(Mux, t, m) /\ View(t)' = "expired"
    BY <1>2, <2>0, KernelStepViews
  <2>2. mux' = mux
    BY <1>2
  <2>3. CASE /\ \A m \in Mux : os'.list[m] = os.list[m]
             /\ \A t \in Task : SameView(t)
    BY <2>2, <2>3, OwnersSame, LinesSame, ViewsSame, StutterStep
  <2>4. ASSUME NEW t \in Task, NEW m \in Mux, Quits(Mux, t, m), View(t)' = "expired"
        PROVE  AbstractStep
    <3>1. t \in User
      <4>1. Waiting(t)
        BY <2>4 DEF Quits, View
      <4>2. t # Idle
        BY <2>0, <4>1, PendsOnList DEF Waiting, Core, Consistent, IdleStays
      <4> QED BY <4>2, Users
    <3> QED BY <2>2, <2>4, <3>1, QuitStepOf
  <2> QED BY <2>1, <2>3, <2>4
<1>3. CASE \E t \in Task : Holds(t) = {} /\ DeleteStep(t) /\ UNCHANGED <<mux, unusedMux>>
  BY <1>3, MuxKillAbstract
<1>4. CASE UNCHANGED vars
  BY <1>4, CalmViews, OwnersSame, StutterStep DEF vars
<1> QED BY <1>1, <1>2, <1>3, <1>4 DEF MuxNext

LEMMA MuxInitAbstract == MuxInit => Abstract!Init
<1> SUFFICES ASSUME MuxInit PROVE Abstract!Init
  OBVIOUS
<1>1. MuxInv /\ call = [t \in Task |-> NoCall]
  BY MuxInitInv DEF MuxInit, InitIpc
<1>2. \A m \in Mux : mux[m].count = 0 /\ ~(mux[m].count > 0)
  BY DEF MuxInit, osMuxInit, Fresh
<1>3. \A m \in Mux : os.list[m] = <<>>
  BY <1>1, <1>2 DEF MuxInv, Waited
<1>4. \A t \in User : MuxView(t) = "out"
  BY <1>1, Users DEF MuxView
<1> QED BY <1>2, <1>3, <1>4 DEF Abstract!Init

----------------------------------------------------------------------------
\* Priorities.  Outside the mutexes only the creation of a task gives one.

\* The priorities stay and no control block comes into use.
KeepsPrio(s, r) ==
  Plain(s) => /\ Plain(r) /\ r.prio = s.prio
              /\ \A u \in Task : "UNUSED" \in s.status[u] => "UNUSED" \in r.status[u]

LEMMA KeepsPrioTrans ==
  ASSUME NEW s, NEW r, NEW q, KeepsPrio(s, r), KeepsPrio(r, q)
  PROVE  KeepsPrio(s, q)
BY DEF KeepsPrio

LEMMA KeepsPrioFlag ==
  ASSUME NEW s, NEW t, NEW f, f # "UNUSED"
  PROVE  /\ KeepsPrio(s, [s EXCEPT !.status[t] = @ \cup {f}])
         /\ KeepsPrio(s, [s EXCEPT !.status[t] = @ \ {f}])
<1>1. KeepsPrio(s, [s EXCEPT !.status[t] = @ \cup {f}])
  BY DummyTask DEF KeepsPrio, Plain
<1>2. KeepsPrio(s, [s EXCEPT !.status[t] = @ \ {f}])
  BY DummyTask DEF KeepsPrio, Plain
<1> QED BY <1>1, <1>2

LEMMA KeepsPrioLists ==
  ASSUME NEW s, NEW t, NEW h
  PROVE  /\ KeepsPrio(s, LOS_ListDelete(s, t)) /\ KeepsPrio(s, LOS_ListTailInsert(s, h, t))
         /\ KeepsPrio(s, LOS_ListAdd(s, h, t))
         /\ KeepsPrio(s, Enqueue(s, t)) /\ KeepsPrio(s, Dequeue(s, t))
<1>1. \A z, g : /\ KeepsPrio(z, LOS_ListDelete(z, t)) /\ KeepsPrio(z, LOS_ListTailInsert(z, g, t))
                /\ KeepsPrio(z, LOS_ListAdd(z, g, t))
  BY DEF KeepsPrio, Plain, LOS_ListDelete, LOS_ListTailInsert, LOS_ListAdd
<1>2. KeepsPrio(s, Enqueue(s, t))
  <2> DEFINE a == [s EXCEPT !.status[t] = @ \cup {"READY"}]
             p == s.prio[t]
  <2>1. KeepsPrio(s, a) /\ Enqueue(s, t) = LOS_ListTailInsert(a, p, t)
    BY KeepsPrioFlag DEF Enqueue
  <2> HIDE DEF a, p
  <2> QED BY <1>1, <2>1, KeepsPrioTrans
<1>3. KeepsPrio(s, Dequeue(s, t))
  <2> DEFINE a == [s EXCEPT !.status[t] = @ \ {"READY"}]
  <2>1. KeepsPrio(s, a) /\ Dequeue(s, t) = LOS_ListDelete(a, t)
    BY KeepsPrioFlag DEF Dequeue
  <2> HIDE DEF a
  <2> QED BY <1>1, <2>1, KeepsPrioTrans
<1> QED BY <1>1, <1>2, <1>3

LEMMA KeepsPrioSchedule ==
  ASSUME NEW s
  PROVE  KeepsPrio(s, LOS_Schedule(s)) /\ KeepsPrio(s, Reschedule(s))
<1>1. KeepsPrio(s, LOS_Schedule(s))
  BY DEF KeepsPrio, Plain, LOS_Schedule
<1>2. KeepsPrio(s, [s EXCEPT !.resched = @ \cup {s.run}])
  BY DEF KeepsPrio, Plain
<1> QED BY <1>1, <1>2 DEF Reschedule

LEMMA KeepsPrioTick ==
  ASSUME NEW s
  PROVE  KeepsPrio(s, NextSlot(osTimesliceCheck(s)))
<1>1. \A z : KeepsPrio(z, Yield(z))
  <2> SUFFICES ASSUME NEW z, Yield(z) # z PROVE KeepsPrio(z, Yield(z))
    BY DEF KeepsPrio
  <2> DEFINE a == LOS_ListDelete(z, z.run)
             b == Enqueue(a, z.run)
  <2>1. Yield(z) = Reschedule(b)
    BY DEF Yield
  <2>2. KeepsPrio(z, a) /\ KeepsPrio(a, b) /\ KeepsPrio(b, Reschedule(b))
    BY KeepsPrioLists, KeepsPrioSchedule
  <2> HIDE DEF a, b
  <2> QED BY <2>1, <2>2, KeepsPrioTrans
<1> DEFINE left == IF s.sliceTask # s.run \/ s.sliceLeft = 0 THEN TimeSlice - 1
                   ELSE s.sliceLeft - 1
           z == [s EXCEPT !.sliceTask = Dummy, !.sliceLeft = 0]
           k == [s EXCEPT !.sliceTask = s.run, !.sliceLeft = left]
           c == osTimesliceCheck(s)
<1>2. KeepsPrio(s, z) /\ KeepsPrio(s, k)
  BY DEF KeepsPrio, Plain
<1>3. c = IF left = 0 THEN Yield(z) ELSE k
  BY DEF osTimesliceCheck
<1> HIDE DEF left, z, k, c
<1>4. KeepsPrio(s, c)
  BY <1>1, <1>2, <1>3, KeepsPrioTrans
<1>5. KeepsPrio(c, NextSlot(c))
  BY DEF KeepsPrio, Plain, NextSlot
<1> QED BY <1>4, <1>5, KeepsPrioTrans DEF c

LEMMA KeepsPrioExpire ==
  ASSUME NEW s, NEW t
  PROVE  KeepsPrio(s, TimerExpire(s, t))
<1> DEFINE e == [s EXCEPT !.timer[t] = 0, !.due = @ \ {t}]
           w == IF s.status[t] \cap {"PEND", "PEND_QUEUE"} # {} THEN LOS_ListDelete(e, t) ELSE e
           f == IF "PEND" \in w.status[t] THEN "PEND"
                ELSE IF "PEND_QUEUE" \in w.status[t] THEN "PEND_QUEUE" ELSE "DELAY"
           c == [w EXCEPT !.status[t] = @ \ (IF "PEND" \in @ THEN {"PEND"}
                                             ELSE IF "PEND_QUEUE" \in @ THEN {"PEND_QUEUE"}
                                             ELSE {"DELAY"})]
           d == Enqueue(c, t)
           r == [d EXCEPT !.needSchedule = TRUE]
<1>1. TimerExpire(s, t) = IF "SUSPEND" \in s.status[t] THEN c ELSE r
  BY DEF TimerExpire
<1>2. KeepsPrio(s, e)
  BY DEF KeepsPrio, Plain
<1>3. KeepsPrio(e, w)
  BY KeepsPrioLists DEF KeepsPrio
<1>4. f # "UNUSED" /\ c = [w EXCEPT !.status[t] = @ \ {f}]
  <2> HIDE DEF w
  <2> QED OBVIOUS
<1> HIDE DEF f, w, e, c
<1>5. KeepsPrio(w, c)
  BY <1>4, KeepsPrioFlag
<1>6. KeepsPrio(c, d)
  BY KeepsPrioLists
<1> HIDE DEF d
<1>7. KeepsPrio(d, r)
  BY DEF KeepsPrio, Plain
<1> HIDE DEF r
<1>8. KeepsPrio(s, w) /\ KeepsPrio(w, r)
  BY <1>2, <1>3, <1>5, <1>6, <1>7, KeepsPrioTrans
<1> QED BY <1>1, <1>5, <1>8 DEF KeepsPrio

LEMMA KeepsPrioDelete ==
  ASSUME NEW s, NEW t \in Task
  PROVE  KeepsPrio(s, DeleteTask(s, t))
<1> DEFINE m == [s EXCEPT !.resched = @ \ {t}]
           u == Unpend(m, t)
           l == osTimerListDelete(u, t)
           d == IF s.status[t] \cap {"DELAY", "TIMEOUT"} # {} THEN l ELSE u
           e == [d EXCEPT !.status[Dummy] = (d.status[t] \ {"SUSPEND"}) \cup {"UNUSED"},
                          !.status[t] = {"UNUSED"},
                          !.run = Dummy, !.new = osPriqueueTop(d), !.pendSV = TRUE]
           f == [d EXCEPT !.status[t] = {"UNUSED"}, !.new = osPriqueueTop(d)]
<1>1. DeleteTask(s, t) = LOS_ListTailInsert(e, RecycleList, t)
        \/ DeleteTask(s, t) = LOS_ListAdd(f, FreeTask, t)
  BY DEF DeleteTask, RetireRunning, ReleaseTcb
<1>2. KeepsPrio(s, m)
  BY DEF KeepsPrio, Plain
<1> HIDE DEF m
<1>3. KeepsPrio(m, u)
  BY KeepsPrioLists DEF Unpend, KeepsPrio
<1> HIDE DEF u
<1>4. KeepsPrio(u, l)
  BY DEF KeepsPrio, Plain, osTimerListDelete
<1> HIDE DEF l
<1>5. KeepsPrio(s, d)
  BY <1>2, <1>3, <1>4, KeepsPrioTrans DEF KeepsPrio
<1> HIDE DEF d
<1>6. KeepsPrio(d, e)
  BY DummyTask DEF KeepsPrio, Plain
<1>7. KeepsPrio(d, f)
  BY DummyTask DEF KeepsPrio, Plain
<1> HIDE DEF e, f
<1>8. /\ KeepsPrio(e, LOS_ListTailInsert(e, RecycleList, t))
      /\ KeepsPrio(f, LOS_ListAdd(f, FreeTask, t))
  BY KeepsPrioLists
<1> QED BY <1>1, <1>5, <1>6, <1>7, <1>8, KeepsPrioTrans

LEMMA KeepsPrioWait ==
  ASSUME NEW s, NEW h, NEW timeout
  PROVE  KeepsPrio(s, osTaskWait(s, h, "PEND", timeout))
<1> DEFINE t == s.run
           d == Dequeue(s, t)
           w == LOS_ListTailInsert(d, h, t)
           k == [w EXCEPT !.status[t] = @ \cup {"PEND"}]
           e == [w EXCEPT !.status[t] = @ \cup {"PEND", "TIMEOUT"}, !.timer[t] = timeout]
<1>1. osTaskWait(s, h, "PEND", timeout) = k \/ osTaskWait(s, h, "PEND", timeout) = e
  BY DEF osTaskWait
<1>2. KeepsPrio(s, d)
  BY KeepsPrioLists
<1> HIDE DEF d
<1>3. KeepsPrio(d, w)
  BY KeepsPrioLists
<1> HIDE DEF w
<1>4. KeepsPrio(w, k) /\ KeepsPrio(w, e)
  BY DummyTask DEF KeepsPrio, Plain
<1> HIDE DEF k, e, t
<1> QED BY <1>1, <1>2, <1>3, <1>4, KeepsPrioTrans

LEMMA KeepsPrioWake ==
  ASSUME NEW s, NEW t
  PROVE  KeepsPrio(s, osTaskWake(s, t, "PEND"))
<1> DEFINE a == [s EXCEPT !.status[t] = @ \ {"PEND", "TIMEOUT"}]
           w == LOS_ListDelete(a, t)
           l == osTimerListDelete(w, t)
           c == IF "TIMEOUT" \in s.status[t] THEN l ELSE w
           e == Enqueue(c, t)
<1>1. osTaskWake(s, t, "PEND") = c \/ osTaskWake(s, t, "PEND") = e
  BY DEF osTaskWake
<1>2. KeepsPrio(s, a)
  BY DummyTask DEF KeepsPrio, Plain
<1> HIDE DEF a
<1>3. KeepsPrio(a, w)
  BY KeepsPrioLists
<1> HIDE DEF w
<1>4. KeepsPrio(w, l)
  BY DEF KeepsPrio, Plain, osTimerListDelete
<1> HIDE DEF l
<1>5. KeepsPrio(s, c)
  BY <1>2, <1>3, <1>4, KeepsPrioTrans
<1> HIDE DEF c
<1>6. KeepsPrio(c, e)
  BY KeepsPrioLists
<1> HIDE DEF e
<1> QED BY <1>1, <1>5, <1>6, KeepsPrioTrans

\* The new priority, and nobody else's.
LEMMA PriModifyPrio ==
  ASSUME NEW s, Plain(s), NEW t \in Task, NEW p \in Prio
  PROVE  LET r == osTaskPriModify(s, t, p)
         IN  /\ Plain(r) /\ r.prio = [s.prio EXCEPT ![t] = p]
             /\ \A u \in Task : "UNUSED" \in s.status[u] => "UNUSED" \in r.status[u]
<1> DEFINE d == Dequeue(s, t)
           a == [d EXCEPT !.prio[t] = p]
           c == [s EXCEPT !.prio[t] = p]
           r == osTaskPriModify(s, t, p)
<1>1. CASE "READY" \in s.status[t]
  <2>1. r = Enqueue(a, t)
    BY <1>1 DEF osTaskPriModify
  <2>2. KeepsPrio(s, d)
    BY KeepsPrioLists
  <2> HIDE DEF d, r
  <2>3. Plain(a) /\ a.prio = [s.prio EXCEPT ![t] = p] /\ a.status = d.status
    BY <2>2 DEF KeepsPrio, Plain
  <2> HIDE DEF a
  <2>4. KeepsPrio(a, r)
    BY <2>1, KeepsPrioLists
  <2> QED BY <2>2, <2>3, <2>4 DEF KeepsPrio, r
<1>2. CASE "READY" \notin s.status[t]
  BY <1>2 DEF osTaskPriModify, Plain
<1> QED BY <1>1, <1>2
\* The block that LOS_TaskCreate takes into use gets one of its creation priorities.
Creates(t) ==
  /\ "UNUSED" \in os.status[t]
  /\ \E p \in CreatePrio[t] : os'.prio = [os.prio EXCEPT ![t] = p]
  /\ \A u \in Task \ {t} : "UNUSED" \in os.status[u] => "UNUSED" \in os'.status[u]

LEMMA CreateGives ==
  ASSUME Core(os), LOS_TaskCreate
  PROVE  \E t \in Task : Creates(t)
<1> DEFINE s == RecycleTcbs(os)
           t == Head(s.list[FreeTask])
           a(p) == InitTcb(s, p)
           b(p) == [a(p) EXCEPT !.status[t] = {}]
           c(p) == Enqueue(b(p), t)
<1>1. /\ Consistent(s) /\ s.status = os.status /\ s.prio = os.prio /\ s.list[FreeTask] # <<>>
      /\ Plain(os)
  BY RecycleFacts, PlainKernel DEF LOS_TaskCreate, Core, Consistent
<1>2. t \in Task /\ s.status[t] = {"UNUSED"}
  <2> HIDE DEF s
  <2> QED BY <1>1, FreeHead
<1>3. PICK p, n, e : /\ p \in CreatePrio[t]
                     /\ os' = [c(p) EXCEPT !.new = n, !.pendSV = e]
  BY DEF LOS_TaskCreate
<1>4. /\ Plain(a(p)) /\ a(p).prio = [os.prio EXCEPT ![t] = p]
      /\ a(p).status = [os.status EXCEPT ![t] = {"SUSPEND"}]
  <2>1. p \in Prio
    BY <1>2, <1>3, CreatePrioType
  <2>2. Plain(s)
    BY <1>1, PlainKernel DEF Consistent
  <2> HIDE DEF s
  <2> QED BY <1>1, <1>2, <2>1, <2>2 DEF InitTcb, Plain
<1> HIDE DEF a, s, t
<1>5. /\ Plain(b(p)) /\ b(p).prio = [os.prio EXCEPT ![t] = p]
      /\ \A u \in Task \ {t} : "UNUSED" \in os.status[u] => "UNUSED" \in b(p).status[u]
  BY <1>1, <1>4, DummyTask DEF Plain
<1> HIDE DEF b
<1>6. KeepsPrio(b(p), c(p))
  BY KeepsPrioLists
<1> HIDE DEF c
<1>7. KeepsPrio(c(p), os')
  BY <1>3 DEF KeepsPrio, Plain
<1>8. KeepsPrio(b(p), os')
  BY <1>6, <1>7, KeepsPrioTrans
<1> QED BY <1>1, <1>2, <1>3, <1>5, <1>8 DEF KeepsPrio, Creates

LEMMA KeepsPrioCalls ==
  ASSUME TaskCall, ~LOS_TaskCreate, PriSetArg = {}
  PROVE  KeepsPrio(os, os')
<1>1. CASE \E t \in Task : LOS_TaskResume(t)
  <2> PICK t \in Task : LOS_TaskResume(t)
    BY <1>1
  <2> DEFINE s == [os EXCEPT !.status[t] = @ \ {"SUSPEND"}]
             e == Enqueue(s, t)
             r == [e EXCEPT !.new = osPriqueueTop(e)]
  <2>1. os' = s \/ os' = Reschedule(e) \/ os' = r
    BY DEF LOS_TaskResume
  <2>2. KeepsPrio(os, s) /\ KeepsPrio(s, e)
    BY KeepsPrioFlag, KeepsPrioLists
  <2> HIDE DEF s, e
  <2>3. KeepsPrio(e, Reschedule(e)) /\ KeepsPrio(e, r)
    BY KeepsPrioSchedule DEF KeepsPrio, Plain
  <2> HIDE DEF r
  <2> QED BY <2>1, <2>2, <2>3, KeepsPrioTrans
<1>2. CASE \E t \in Task : LOS_TaskSuspend(t)
  <2> PICK t \in Task : LOS_TaskSuspend(t)
    BY <1>2
  <2> DEFINE d == IF "READY" \in os.status[t] THEN Dequeue(os, t) ELSE os
             s == [d EXCEPT !.status[t] = @ \cup {"SUSPEND"}]
  <2>1. os' = s \/ os' = Reschedule(s)
    BY DEF LOS_TaskSuspend
  <2>2. KeepsPrio(os, d)
    BY KeepsPrioLists DEF KeepsPrio
  <2> HIDE DEF d
  <2>3. KeepsPrio(d, s)
    BY KeepsPrioFlag
  <2> HIDE DEF s
  <2>4. KeepsPrio(s, Reschedule(s))
    BY KeepsPrioSchedule
  <2> QED BY <2>1, <2>2, <2>3, <2>4, KeepsPrioTrans
<1>3. CASE \E n \in Ticks : LOS_TaskDelay(n)
  <2> PICK n \in Ticks : LOS_TaskDelay(n)
    BY <1>3
  <2> DEFINE d == Dequeue(os, os.run)
             b == [d EXCEPT !.timer[os.run] = n, !.status[os.run] = @ \cup {"DELAY"}]
  <2>1. os' = Reschedule(b)
    BY DEF LOS_TaskDelay
  <2>2. KeepsPrio(os, d)
    BY KeepsPrioLists
  <2> HIDE DEF d
  <2>3. KeepsPrio(d, b)
    BY DummyTask DEF KeepsPrio, Plain
  <2> HIDE DEF b
  <2>4. KeepsPrio(b, Reschedule(b))
    BY KeepsPrioSchedule
  <2> QED BY <2>1, <2>2, <2>3, <2>4, KeepsPrioTrans
<1>4. CASE LOS_TaskLock
  BY <1>4 DEF LOS_TaskLock, KeepsPrio, Plain
<1>5. CASE LOS_TaskUnlock
  <2> DEFINE s == [os EXCEPT !.lock = @ - 1]
  <2>1. os' = s \/ os' = Reschedule(s)
    BY <1>5 DEF LOS_TaskUnlock
  <2>2. KeepsPrio(os, s)
    BY DEF KeepsPrio, Plain
  <2> HIDE DEF s
  <2> QED BY <2>1, <2>2, KeepsPrioSchedule, KeepsPrioTrans
<1> QED BY <1>1, <1>2, <1>3, <1>4, <1>5 DEF TaskCall

LEMMA KeepsPrioExceptions ==
  ASSUME Exception
  PROVE  KeepsPrio(os, os')
<1>1. CASE LOS_StartToRun
  <2> DEFINE m == [os EXCEPT !.scheduled = TRUE, !.run = os.new]
             r == [m EXCEPT !.status[os.new] = @ \cup {"RUNNING"}]
  <2>1. os' = r /\ KeepsPrio(os, m)
    BY <1>1 DEF LOS_StartToRun, KeepsPrio, Plain
  <2> HIDE DEF m
  <2>2. KeepsPrio(m, r)
    BY KeepsPrioFlag
  <2> HIDE DEF r
  <2> QED BY <2>1, <2>2, KeepsPrioTrans
<1>2. CASE TaskReschedule
  <2> DEFINE m == [os EXCEPT !.resched = @ \ {os.run}]
  <2>1. os' = LOS_Schedule(m)
    BY <1>2 DEF TaskReschedule
  <2>2. KeepsPrio(os, m)
    BY DEF KeepsPrio, Plain
  <2> HIDE DEF m
  <2> QED BY <2>1, <2>2, KeepsPrioSchedule, KeepsPrioTrans
<1>3. CASE osPendSV
  <2>1. os' = [os EXCEPT !.pendSV = FALSE, !.run = os.new,
                 !.status = [t \in Tcb |-> IF t = os.new THEN @[t] \cup {"RUNNING"}
                                           ELSE IF t = os.run THEN @[t] \ {"RUNNING"}
                                           ELSE @[t]]]
    BY <1>3 DEF osPendSV
  <2> QED BY <2>1, DummyTask DEF KeepsPrio, Plain
<1>4. CASE osInterruptEnter \/ osInterruptExit
  BY <1>4 DEF osInterruptEnter, osInterruptExit, KeepsPrio, Plain
<1>5. CASE osTickHandler
  <2> DEFINE s == [os EXCEPT !.scan = TRUE, !.needSchedule = FALSE]
  <2>1. KeepsPrio(os, s)
    BY DEF KeepsPrio, Plain
  <2>2. os' = NextSlot(osTimesliceCheck(s))
    BY <1>5 DEF osTickHandler
  <2> HIDE DEF s
  <2> QED BY <2>1, <2>2, KeepsPrioTick, KeepsPrioTrans
<1>6. CASE \E t \in Task : osTaskScanNext(t)
  BY <1>6, KeepsPrioExpire DEF osTaskScanNext
<1>7. CASE osTaskScanEnd
  <2> DEFINE s == [os EXCEPT !.scan = FALSE, !.needSchedule = FALSE]
  <2>1. os' = s \/ os' = LOS_Schedule(s)
    BY <1>7 DEF osTaskScanEnd
  <2>2. KeepsPrio(os, s)
    BY DEF KeepsPrio, Plain
  <2> HIDE DEF s
  <2> QED BY <2>1, <2>2, KeepsPrioSchedule, KeepsPrioTrans
<1> QED BY <1>1, <1>2, <1>3, <1>4, <1>5, <1>6, <1>7 DEF Exception

LEMMA KernelStepPrio ==
  ASSUME Core(os), KernelStep, PriSetArg = {}
  PROVE  KeepsPrio(os, os') \/ \E t \in Task : Creates(t)
BY CreateGives, KeepsPrioCalls, KeepsPrioExceptions DEF KernelStep
\* The priority a task goes back to with its last mutex: a task that holds none runs at one
\* it was given, and the first mutex in the order keeps such a one.
Based ==
  \A t \in User : "UNUSED" \notin os.status[t] =>
    /\ Holds(t) = {} => os.prio[t] \in CreatePrio[t]
    /\ \A m \in Holds(t) :
         (\A h \in Holds(t) : Index(m) <= Index(h)) => mux[m].prio \in CreatePrio[t]

\* Who waits for a mutex comes to hold it after those it holds.
InOrder ==
  \A t \in Task, m \in Mux :
    call[t] = m /\ "PEND" \in os.status[t] => \A h \in Holds(t) : Index(h) < Index(m)

LEMMA IndexFacts ==
  /\ \A m \in Mux : Index(m) \in Nat
  /\ \A g, m \in Mux : Index(g) = Index(m) => g = m
<1> SUFFICES \A m \in Mux : Index(m) \in DOMAIN MuxArray /\ MuxArray[Index(m)] = m
  BY MuxAssumption
<1> QED BY DEF Index, Mux, Elems

\* Nobody comes to hold a mutex or gives one up.
LEMMA BaseFrame ==
  ASSUME Based, InOrder, \A t \in Task : Holds(t)' = Holds(t),
         \A m \in Mux : mux[m].count > 0 => mux'[m].prio = mux[m].prio,
         \A t \in User : "UNUSED" \notin os'.status[t] =>
           \/ "UNUSED" \notin os.status[t] /\ (Holds(t) = {} => os'.prio[t] = os.prio[t])
           \/ Holds(t) = {} /\ os'.prio[t] \in CreatePrio[t],
         \A t \in Task, m \in Mux : call'[t] = m /\ "PEND" \in os'.status[t] =>
           \/ call[t] = m /\ "PEND" \in os.status[t]
           \/ \A h \in Holds(t) : Index(h) < Index(m)
  PROVE  Based' /\ InOrder'
<1>1. Based'
  <2> SUFFICES ASSUME NEW t \in User, "UNUSED" \notin os'.status[t]
               PROVE  /\ Holds(t) = {} => os'.prio[t] \in CreatePrio[t]
                      /\ \A m \in Holds(t) :
                           (\A h \in Holds(t) : Index(m) <= Index(h))
                             => mux'[m].prio \in CreatePrio[t]
    BY Users DEF Based
  <2>1. \A m \in Holds(t) : m \in Mux /\ mux[m].count > 0
    BY DEF Holds
  <2> QED BY <2>1 DEF Based
<1>2. InOrder'
  BY DEF InOrder
<1> QED BY <1>1, <1>2

\* What is locked stays as it is but for the count.
LEMMA HoldsSame ==
  ASSUME \A m \in Mux : (mux'[m].count > 0) = (mux[m].count > 0),
         \A m \in Mux : mux[m].count > 0 => mux'[m].owner = mux[m].owner
  PROVE  \A t \in Task : Holds(t)' = Holds(t)
BY DEF Holds

LEMMA MuxCreateBase ==
  ASSUME MuxInv, Based, InOrder, LOS_MuxCreate
  PROVE  Based' /\ InOrder'
<1> DEFINE m == Head(unusedMux)
           b == Fresh(TRUE)
<1>1. mux' = [mux EXCEPT ![m] = b] /\ UNCHANGED <<os, call>> /\ b.count = 0
  BY DEF LOS_MuxCreate, Fresh
<1>2. m \in Mux /\ mux[m].count = 0
  <2>1. unusedMux # <<>>
    BY DEF LOS_MuxCreate
  <2> QED BY <2>1, HeadTailElems DEF MuxInv, Blocks
<1> HIDE DEF m, b
<1>3. mux'[m] = b /\ \A g \in Mux \ {m} : mux'[g] = mux[g]
  BY <1>1, <1>2 DEF MuxInv, Blocks
<1>4. \A t \in Task : Holds(t)' = Holds(t)
  BY <1>1, <1>2, <1>3 DEF Holds
<1>5. \A g \in Mux : mux[g].count > 0 => mux'[g].prio = mux[g].prio
  BY <1>2, <1>3
<1> QED BY <1>1, <1>4, <1>5, BaseFrame

LEMMA MuxDeleteBase ==
  ASSUME MuxInv, Based, InOrder, NEW m \in Mux, LOS_MuxDelete(m)
  PROVE  Based' /\ InOrder'
<1>1. /\ mux[m].count = 0 /\ mux' = [mux EXCEPT ![m].used = FALSE] /\ UNCHANGED <<os, call>>
  BY DEF LOS_MuxDelete
<1>2. \A g \in Mux : /\ mux'[g].count = mux[g].count /\ mux'[g].owner = mux[g].owner
                     /\ mux'[g].prio = mux[g].prio
  BY <1>1 DEF MuxInv, Blocks, MuxCb
<1>3. \A t \in Task : Holds(t)' = Holds(t)
  BY <1>2 DEF Holds
<1> QED BY <1>1, <1>2, <1>3, BaseFrame

LEMMA MuxNestBase ==
  ASSUME MuxInv, Based, InOrder, NEW m \in Mux, MuxLockAgain(m) \/ MuxUnnest(m)
  PROVE  Based' /\ InOrder'
<1>1. mux[m].count > 0 /\ UNCHANGED <<os, call>>
  BY DEF MuxLockAgain, MuxUnnest, Holds
<1>2. PICK c : mux' = [mux EXCEPT ![m].count = c] /\ c > 0
  <2>1. PICK n \in 0 .. MaxNest : mux[m].count = n
    BY DEF MuxInv, Blocks, MuxCb
  <2>2. CASE MuxLockAgain(m)
    <3>1. mux' = [mux EXCEPT ![m].count = n + 1] /\ n + 1 > 0
      BY <2>1, <2>2, MuxHeads DEF MuxLockAgain, MuxInv, Blocks
    <3> QED BY <3>1
  <2>3. CASE MuxUnnest(m)
    <3>1. mux' = [mux EXCEPT ![m].count = n - 1] /\ n - 1 > 0
      BY <2>1, <2>3, MuxHeads DEF MuxUnnest, MuxInv, Blocks
    <3> QED BY <3>1
  <2> QED BY <2>2, <2>3
<1>3. \A g \in Mux : mux'[g].owner = mux[g].owner /\ mux'[g].prio = mux[g].prio
  BY <1>2 DEF MuxInv, Blocks, MuxCb
<1>4. \A g \in Mux : mux'[g].count > 0 <=> mux[g].count > 0
  BY <1>1, <1>2 DEF MuxInv, Blocks, MuxCb
<1>5. \A t \in Task : Holds(t)' = Holds(t)
  BY <1>3, <1>4 DEF Holds
<1> QED BY <1>1, <1>3, <1>5, BaseFrame

\* The first mutex of a task, or one after those it holds.
LEMMA MuxLockBase ==
  ASSUME MuxInv, Ordered, Based, InOrder, NEW m \in Mux, MayLock(m), MuxLock(m)
  PROVE  Based' /\ InOrder'
<1> DEFINE b == [used |-> TRUE, count |-> 1, owner |-> os.run, prio |-> os.prio[os.run]]
<1>0. PICK t : t = os.run
  OBVIOUS
<1>1. /\ FreeTaskContext /\ mux[m].count = 0 /\ mux' = [mux EXCEPT ![m] = b]
      /\ UNCHANGED <<os, call, unusedMux>>
  BY DEF MuxLock
<1>2. /\ t \in Task /\ t \in User /\ call[t] = NoCall /\ "UNUSED" \notin os.status[t]
  BY <1>0, <1>1, Caller
<1>3. b.count = 1 /\ b.owner = t /\ b.prio = os.prio[t]
  BY <1>0
<1> HIDE DEF b
<1>4. mux'[m] = b /\ \A g \in Mux \ {m} : mux'[g] = mux[g]
  BY <1>1 DEF MuxInv, Blocks
<1>5. /\ Holds(t)' = Holds(t) \cup {m} /\ m \notin Holds(t)
      /\ \A u \in Task \ {t} : Holds(u)' = Holds(u)
      /\ \A u \in Task : m \notin Holds(u) /\ Holds(u) \subseteq Mux
  BY <1>1, <1>3, <1>4 DEF Holds
<1>6. \A h \in Holds(t) : h \in Mux /\ Index(h) < Index(m)
  <2>1. \A h \in Holds(t) : Index(h) <= Index(m)
    BY <1>0 DEF MayLock
  <2> QED BY <1>2, <1>5, <2>1, IndexFacts
<1>7. Based'
  <2>1. ASSUME NEW u \in User, "UNUSED" \notin os.status[u], u # t
        PROVE  /\ Holds(u)' = {} => os'.prio[u] \in CreatePrio[u]
               /\ \A g \in Holds(u)' :
                    (\A h \in Holds(u)' : Index(g) <= Index(h)) => mux'[g].prio \in CreatePrio[u]
    <3>1. Holds(u)' = Holds(u) /\ \A g \in Holds(u) : mux'[g] = mux[g]
      BY <1>4, <1>5, <2>1, Users
    <3> QED BY <1>1, <2>1, <3>1 DEF Based
  <2>2. \A g \in Holds(t)' :
          (\A h \in Holds(t)' : Index(g) <= Index(h)) => mux'[g].prio \in CreatePrio[t]
    <3> SUFFICES ASSUME NEW g \in Holds(t)', \A h \in Holds(t)' : Index(g) <= Index(h)
                 PROVE  mux'[g].prio \in CreatePrio[t]
      OBVIOUS
    <3>1. CASE g = m
      <4>1. Holds(t) = {}
        BY <1>5, <1>6, <3>1, IndexFacts
      <4> QED BY <1>2, <1>3, <1>4, <3>1, <4>1 DEF Based
    <3>2. CASE g # m
      BY <1>2, <1>4, <1>5, <3>2 DEF Based
    <3> QED BY <3>1, <3>2
  <2>3. Holds(t)' # {}
    BY <1>5
  <2> QED BY <1>1, <2>1, <2>2, <2>3 DEF Based
<1>8. InOrder'
  BY <1>1, <1>2, <1>5, MuxHeads DEF InOrder
<1> QED BY <1>7, <1>8
\* The owner is lifted, who holds a mutex, and the caller comes to wait for one after those
\* it holds.
LEMMA MuxWaitBase ==
  ASSUME MuxInv, Ordered, Based, InOrder, NEW m \in Mux, NEW n \in MuxTimeouts,
         MayLock(m), MuxWait(m, n)
  PROVE  Based' /\ InOrder'
<1> DEFINE o == mux[m].owner
           s == Inherit(os, o)
           r == osTaskWait(s, m, "PEND", n)
<1>0. PICK t : t = os.run
  OBVIOUS
<1>1. /\ FreeTaskContext /\ mux[m].count > 0 /\ o # t /\ os.lock = 0
      /\ os' = Reschedule(r) /\ call' = [call EXCEPT ![t] = m] /\ mux' = mux
  BY <1>0 DEF MuxWait
<1>2. /\ TaskContext /\ t \in Task \ {Idle} /\ "TIMEOUT" \notin os.status[t]
      /\ os.prio[t] \in Prio
  BY <1>0, <1>1, Caller
<1>3. o \in Task \ {Idle} /\ o \in User /\ m \in Holds(o)
  BY <1>1, Users DEF MuxInv, Owned, Holds
<1>4. Lifted(os, s) /\ Consistent(os) /\ Plain(os)
  BY <1>0, <1>2, <1>3, InheritLifts, PlainKernel DEF MuxInv, Core, Consistent
<1>5. \A u \in Task \ {o} : s.prio[u] = os.prio[u]
  <2> DEFINE a == osTaskPriModify(os, o, os.prio[t])
  <2>1. a.prio = [os.prio EXCEPT ![o] = os.prio[t]]
    BY <1>2, <1>3, <1>4, PriModifyPrio
  <2>2. s = a \/ s = os
    BY <1>0 DEF Inherit
  <2> HIDE DEF a, o, s
  <2> QED BY <1>3, <1>4, <2>1, <2>2 DEF Plain
<1>6. Plain(s) /\ s.status = os.status
  BY <1>4, PlainKernel DEF Lifted, Consistent
<1>7. \A u \in Task \ {t} : os'.status[u] = os.status[u]
  <2>1. m \in WaitList /\ n \in Ticks \cup {LOS_WAIT_FOREVER}
    BY MuxHeads
  <2> HIDE DEF s, o
  <2> QED BY <1>0, <1>1, <1>2, <1>4, <2>1, LiftedBlock DEF MuxInv
<1> HIDE DEF s
<1>8. KeepsPrio(s, r) /\ KeepsPrio(r, Reschedule(r))
  BY KeepsPrioWait, KeepsPrioSchedule
<1> HIDE DEF r, o
<1>9. /\ os'.prio = s.prio
      /\ \A u \in Task : "UNUSED" \notin os'.status[u] => "UNUSED" \notin os.status[u]
  BY <1>1, <1>6, <1>8, KeepsPrioTrans DEF KeepsPrio
<1>10. \A u \in User : Holds(u) = {} => os'.prio[u] = os.prio[u]
  BY <1>3, <1>5, <1>9, Users
<1>11. \A h \in Holds(t) : Index(h) < Index(m)
  <2>1. m \notin Holds(t) /\ \A h \in Holds(t) : h \in Mux
    BY <1>1 DEF Holds, o
  <2>2. \A h \in Holds(t) : Index(h) <= Index(m)
    BY <1>0 DEF MayLock
  <2> QED BY <2>1, <2>2, IndexFacts
<1>12. \A u \in Task, g \in Mux : call'[u] = g /\ "PEND" \in os'.status[u] =>
         \/ call[u] = g /\ "PEND" \in os.status[u]
         \/ \A h \in Holds(u) : Index(h) < Index(g)
  BY <1>1, <1>2, <1>7, <1>11 DEF MuxInv, Waiters
<1>13. \A u \in Task : Holds(u)' = Holds(u)
  BY <1>1 DEF Holds
<1> QED BY <1>1, <1>9, <1>10, <1>12, <1>13, Users, BaseFrame

LEMMA MuxPendReturnBase ==
  ASSUME MuxInv, Based, InOrder, NEW m \in Mux, MuxPendReturn(m)
  PROVE  Based' /\ InOrder'
<1>1. os' = ClearTimeout(os) /\ call' = [call EXCEPT ![os.run] = NoCall] /\ mux' = mux
  BY DEF MuxPendReturn, Return
<1>2. KeepsPrio(os, os') /\ Plain(os)
  BY <1>1, KeepsPrioFlag, PlainKernel DEF ClearTimeout, MuxInv, Core, Consistent
<1>3. /\ os'.prio = os.prio
      /\ \A u \in Task : "UNUSED" \notin os'.status[u] => "UNUSED" \notin os.status[u]
  BY <1>2 DEF KeepsPrio
<1>4. \A u \in Task : "PEND" \in os'.status[u] => "PEND" \in os.status[u]
  BY <1>1, <1>2, DummyTask DEF ClearTimeout, Plain
<1>5. \A u \in Task, g \in Mux : call'[u] = g => call[u] = g
  BY <1>1, MuxHeads DEF MuxInv, Waiters
<1>6. \A u \in Task : Holds(u)' = Holds(u)
  BY <1>1 DEF Holds
<1> QED BY <1>1, <1>3, <1>4, <1>5, <1>6, Users, BaseFrame

\* Without a waiter and with one, the caller is back at the priority of the moment when it
\* locked the mutex.
LEMMA RestorePrio ==
  ASSUME MuxInv, FreeTaskContext, NEW m \in Mux
  PROVE  LET s == RestorePriority(os, m)
         IN  /\ Plain(s) /\ s.prio[os.run] = mux[m].prio
             /\ \A u \in Task \ {os.run} : s.prio[u] = os.prio[u]
             /\ \A u \in Task : "UNUSED" \in os.status[u] => "UNUSED" \in s.status[u]
<1>1. os.run \in Task /\ mux[m].prio \in Prio /\ Plain(os)
  BY Caller, PlainKernel DEF MuxInv, Blocks, MuxCb, Core, Consistent
<1>2. PICK t \in Task : t = os.run
  BY <1>1
<1> DEFINE r == osTaskPriModify(os, t, mux[m].prio)
<1>3. /\ Plain(r) /\ r.prio = [os.prio EXCEPT ![t] = mux[m].prio]
      /\ \A u \in Task : "UNUSED" \in os.status[u] => "UNUSED" \in r.status[u]
  BY <1>1, PriModifyPrio
<1>4. RestorePriority(os, m) = IF os.prio[t] # mux[m].prio THEN r ELSE os
  BY <1>2 DEF RestorePriority
<1> HIDE DEF r
<1>5. r.prio[t] = mux[m].prio /\ \A u \in Task \ {t} : r.prio[u] = os.prio[u]
  BY <1>1, <1>3 DEF Plain
<1> QED BY <1>1, <1>2, <1>3, <1>4, <1>5

\* The mutex that is released last is the first one in the order: its priority is one the
\* task was given.
LEMMA ReleaserBased ==
  ASSUME Based, Ordered, NEW m \in Mux, NEW t \in User, t = os.run, m \in Holds(t),
         MayRelease(m), "UNUSED" \notin os.status[t], Holds(t)' = Holds(t) \ {m},
         \A g \in Mux \ {m} : mux'[g] = mux[g], os'.prio[t] = mux[m].prio
  PROVE  /\ Holds(t)' = {} => os'.prio[t] \in CreatePrio[t]
         /\ \A g \in Holds(t)' :
              (\A h \in Holds(t)' : Index(g) <= Index(h)) => mux'[g].prio \in CreatePrio[t]
<1>0. \A h \in Holds(t) : h \in Mux /\ Index(h) <= Index(m)
  BY DEF MayRelease, Holds
<1>1. ASSUME Holds(t)' = {} PROVE os'.prio[t] \in CreatePrio[t]
  <2>1. \A h \in Holds(t) : Index(m) <= Index(h)
    BY <1>1, IndexFacts
  <2> QED BY <2>1 DEF Based
<1>2. ASSUME NEW g \in Holds(t)', \A h \in Holds(t)' : Index(g) <= Index(h)
      PROVE  mux'[g].prio \in CreatePrio[t]
  <2>1. g \in Holds(t) /\ g \in Mux \ {m}
    BY <1>0, <1>2
  <2>2. \A h \in Holds(t) : Index(g) <= Index(h)
    BY <1>0, <1>2, <2>1
  <2> QED BY <2>1, <2>2 DEF Based
<1> QED BY <1>1, <1>2

LEMMA MuxFreeBase ==
  ASSUME MuxInv, Ordered, Based, InOrder, NEW m \in Mux, MayRelease(m), MuxRelease(m),
         os.list[m] = <<>>
  PROVE  Based' /\ InOrder'
<1> PICK t : t = os.run
  OBVIOUS
<1>1. /\ FreeTaskContext /\ m \in Holds(t) /\ os' = RestorePriority(os, m)
      /\ mux' = [mux EXCEPT ![m].count = 0] /\ call' = call
  BY DEF MuxRelease
<1>2. /\ t \in Task /\ t \in User /\ "UNUSED" \notin os.status[t]
  BY <1>1, Caller
<1>3. /\ os'.prio[t] = mux[m].prio /\ \A u \in Task \ {t} : os'.prio[u] = os.prio[u]
      /\ \A u \in Task : "UNUSED" \notin os'.status[u] => "UNUSED" \notin os.status[u]
  BY <1>1, RestorePrio
<1>4. os'.status = os.status
  BY <1>1, MuxFreeInv DEF Lifted
<1>5. mux'[m].count = 0 /\ \A g \in Mux \ {m} : mux'[g] = mux[g]
  BY <1>1 DEF MuxInv, Blocks, MuxCb
<1>6. /\ Holds(t)' = Holds(t) \ {m}
      /\ \A u \in Task \ {t} : Holds(u)' = Holds(u) /\ m \notin Holds(u)
  BY <1>1, <1>5 DEF Holds
<1>7. Based'
  <2>1. ASSUME NEW u \in User, "UNUSED" \notin os'.status[u], u # t
        PROVE  /\ Holds(u)' = {} => os'.prio[u] \in CreatePrio[u]
               /\ \A g \in Holds(u)' :
                    (\A h \in Holds(u)' : Index(g) <= Index(h)) => mux'[g].prio \in CreatePrio[u]
    <3>1. Holds(u)' = Holds(u) /\ \A g \in Holds(u) : mux'[g] = mux[g]
      BY <1>5, <1>6, <2>1, Users DEF Holds
    <3>2. os'.prio[u] = os.prio[u] /\ "UNUSED" \notin os.status[u]
      BY <1>3, <2>1, Users
    <3> QED BY <3>1, <3>2 DEF Based
  <2>2. /\ Holds(t)' = {} => os'.prio[t] \in CreatePrio[t]
        /\ \A g \in Holds(t)' :
             (\A h \in Holds(t)' : Index(g) <= Index(h)) => mux'[g].prio \in CreatePrio[t]
    BY <1>1, <1>2, <1>3, <1>5, <1>6, ReleaserBased
  <2> QED BY <2>1, <2>2 DEF Based
<1>8. InOrder'
  BY <1>1, <1>4, <1>6 DEF InOrder
<1> QED BY <1>7, <1>8

\* The next owner waited for a mutex after those it holds.
LEMMA MuxHandBase ==
  ASSUME MuxInv, Ordered, Based, InOrder, NEW m \in Mux, MayRelease(m), MuxRelease(m),
         os.list[m] # <<>>
  PROVE  Based' /\ InOrder'
<1> PICK t : t = os.run
  OBVIOUS
<1> PICK v : v = Head(os.list[m])
  OBVIOUS
<1> DEFINE s == RestorePriority(os, m)
           r == osTaskWake(s, v, "PEND")
<1>1. /\ FreeTaskContext /\ m \in Holds(t) /\ os' = Reschedule(r)
  BY DEF MuxRelease
<1>2. /\ t \in Task /\ t \in User /\ "UNUSED" \notin os.status[t] /\ call[t] = NoCall
  BY <1>1, Caller
<1>3. /\ v \in Task /\ v \in User /\ call[v] = m /\ "PEND" \in os.status[v]
      /\ "UNUSED" \notin os.status[v] /\ v # t
  BY <1>2, FirstWaiter, Users, MuxHeads
<1>4. /\ s.prio[t] = mux[m].prio /\ \A u \in Task \ {t} : s.prio[u] = os.prio[u]
      /\ \A u \in Task : "UNUSED" \in os.status[u] => "UNUSED" \in s.status[u]
      /\ Plain(s)
  BY <1>1, RestorePrio
<1> HIDE DEF s
<1>5. KeepsPrio(s, r) /\ KeepsPrio(r, Reschedule(r))
  BY KeepsPrioWake, KeepsPrioSchedule
<1> HIDE DEF r
<1>6. /\ os'.prio = s.prio
      /\ \A u \in Task : "UNUSED" \notin os'.status[u] => "UNUSED" \notin os.status[u]
  BY <1>1, <1>4, <1>5, KeepsPrioTrans DEF KeepsPrio
<1>7. /\ call' = call
      /\ \A u \in Task \ {v} : os'.status[u] = os.status[u]
      /\ os'.status[v] \ {"READY"} = os.status[v] \ {"PEND", "TIMEOUT"}
      /\ mux'[m].owner = v /\ mux'[m].count = 1 /\ mux[m].owner = t /\ mux'[m].prio = s.prio[v]
      /\ \A g \in Mux \ {m} : mux'[g] = mux[g]
  BY MuxHandFacts DEF s
<1>8. mux'[m].prio = os.prio[v]
  BY <1>3, <1>4, <1>7
<1>9. /\ Holds(t)' = Holds(t) \ {m} /\ Holds(v)' = Holds(v) \cup {m} /\ m \notin Holds(v)
      /\ \A u \in Task \ {t, v} : Holds(u)' = Holds(u) /\ m \notin Holds(u)
  BY <1>1, <1>3, <1>7 DEF Holds
<1>10. \A h \in Holds(v) : h \in Mux /\ Index(h) < Index(m)
  BY <1>3 DEF InOrder, Holds
<1>11. Based'
  <2>1. ASSUME NEW u \in User, "UNUSED" \notin os'.status[u], u \notin {t, v}
        PROVE  /\ Holds(u)' = {} => os'.prio[u] \in CreatePrio[u]
               /\ \A g \in Holds(u)' :
                    (\A h \in Holds(u)' : Index(g) <= Index(h)) => mux'[g].prio \in CreatePrio[u]
    <3>1. Holds(u)' = Holds(u) /\ \A g \in Holds(u) : mux'[g] = mux[g]
      BY <1>7, <1>9, <2>1, Users DEF Holds
    <3>2. os'.prio[u] = os.prio[u] /\ "UNUSED" \notin os.status[u]
      BY <1>4, <1>6, <2>1, Users
    <3> QED BY <3>1, <3>2 DEF Based
  <2>2. /\ Holds(t)' = {} => os'.prio[t] \in CreatePrio[t]
        /\ \A g \in Holds(t)' :
             (\A h \in Holds(t)' : Index(g) <= Index(h)) => mux'[g].prio \in CreatePrio[t]
    BY <1>1, <1>2, <1>4, <1>6, <1>7, <1>9, ReleaserBased
  <2>3. \A g \in Holds(v)' :
          (\A h \in Holds(v)' : Index(g) <= Index(h)) => mux'[g].prio \in CreatePrio[v]
    <3> SUFFICES ASSUME NEW g \in Holds(v)', \A h \in Holds(v)' : Index(g) <= Index(h)
                 PROVE  mux'[g].prio \in CreatePrio[v]
      OBVIOUS
    <3>1. CASE g = m
      <4>1. Holds(v) = {}
        BY <1>9, <1>10, <3>1, IndexFacts
      <4> QED BY <1>3, <1>8, <3>1, <4>1 DEF Based
    <3>2. CASE g # m
      BY <1>3, <1>7, <1>9, <1>10, <3>2 DEF Based
    <3> QED BY <3>1, <3>2
  <2>4. Holds(v)' # {}
    BY <1>9
  <2> QED BY <2>1, <2>2, <2>3, <2>4 DEF Based
<1>12. InOrder'
  <2> SUFFICES ASSUME NEW u \in Task, NEW g \in Mux, call[u] = g, "PEND" \in os'.status[u]
               PROVE  \A h \in Holds(u)' : Index(h) < Index(g)
    BY <1>7 DEF InOrder
  <2>1. u # v /\ u # t /\ "PEND" \in os.status[u]
    BY <1>2, <1>7, MuxHeads
  <2> QED BY <1>9, <2>1 DEF InOrder
<1> QED BY <1>11, <1>12

LEMMA MuxKernelBase ==
  ASSUME ~IsrSuspends, PriSetArg = {}, MuxInv, Based, InOrder, KernelStep, mux' = mux
  PROVE  Based' /\ InOrder'
<1>1. /\ Core(os) /\ Plain(os) /\ call' = call
      /\ \A u \in Task : os'.status[u] \cap Waits \subseteq os.status[u]
  BY KernelStepSteady, PlainKernel DEF MuxInv, Core, Consistent, Steady, Eases
<1>2. \A u \in User : "UNUSED" \notin os'.status[u] =>
        \/ "UNUSED" \notin os.status[u] /\ os'.prio[u] = os.prio[u]
        \/ Holds(u) = {} /\ os'.prio[u] \in CreatePrio[u]
  <2>1. CASE KeepsPrio(os, os')
    BY <1>1, <2>1, Users DEF KeepsPrio
  <2>2. CASE \E t \in Task : Creates(t)
    <3>1. PICK t \in Task : Creates(t)
      BY <2>2
    <3>2. PICK p \in CreatePrio[t] : os'.prio = [os.prio EXCEPT ![t] = p]
      BY <3>1 DEF Creates
    <3>3. os'.prio[t] = p /\ \A u \in Task \ {t} : os'.prio[u] = os.prio[u]
      BY <1>1, <3>2 DEF Plain
    <3>4. Holds(t) = {}
      BY <3>1 DEF Creates, Holds, MuxInv, Owned
    <3> QED BY <3>1, <3>2, <3>3, <3>4, Users DEF Creates
  <2> QED BY <1>1, <2>1, <2>2, KernelStepPrio
<1>3. \A u \in Task : "PEND" \in os'.status[u] => "PEND" \in os.status[u]
  BY <1>1 DEF Waits
<1>4. \A u \in Task : Holds(u)' = Holds(u)
  BY DEF Holds
<1> QED BY <1>1, <1>2, <1>3, <1>4, BaseFrame

LEMMA MuxKillBase ==
  ASSUME MuxInv, Based, InOrder, NEW t \in Task, DeleteStep(t), mux' = mux
  PROVE  Based' /\ InOrder'
<1>1. /\ os'.status[t] = {"UNUSED"} /\ \A u \in Task \ {t} : os'.status[u] = os.status[u]
      /\ call' = [call EXCEPT ![t] = NoCall]
  BY DeleteStepSteady DEF MuxInv
<1>2. os'.prio = os.prio
  <2>1. os' = DeleteTask(os, t) /\ Plain(os)
    BY PlainKernel DEF DeleteStep, LOS_TaskDelete, MuxInv, Core, Consistent
  <2> QED BY <2>1, KeepsPrioDelete DEF KeepsPrio
<1>3. \A u \in Task, g \in Mux : call'[u] = g /\ "PEND" \in os'.status[u] =>
        call[u] = g /\ "PEND" \in os.status[u]
  BY <1>1 DEF MuxInv, Waiters
<1>4. \A u \in Task : Holds(u)' = Holds(u)
  BY DEF Holds
<1> QED BY <1>1, <1>2, <1>3, <1>4, Users, BaseFrame

LEMMA MuxNextBase ==
  ASSUME ~IsrSuspends, PriSetArg = {}, Ordered, MuxInv, Based, InOrder, [MuxNext]_vars
  PROVE  Based' /\ InOrder'
<1>1. CASE MuxCall
  BY <1>1, MuxCreateBase, MuxDeleteBase, MuxLockBase, MuxNestBase, MuxWaitBase,
     MuxPendReturnBase, MuxFreeBase, MuxHandBase DEF MuxCall
<1>2. CASE KernelStep /\ UNCHANGED <<mux, unusedMux>>
  BY <1>2, MuxKernelBase
<1>3. CASE \E t \in Task : Holds(t) = {} /\ DeleteStep(t) /\ UNCHANGED <<mux, unusedMux>>
  BY <1>3, MuxKillBase
<1>4. CASE UNCHANGED vars
  <2>1. os' = os /\ call' = call /\ mux' = mux
    BY <1>4 DEF vars
  <2>2. \A t \in Task : Holds(t)' = Holds(t)
    BY <2>1 DEF Holds
  <2> QED BY <2>1, <2>2, Users, BaseFrame
<1> QED BY <1>1, <1>2, <1>3, <1>4 DEF MuxNext

LEMMA MuxInitBase == MuxInit => Based /\ InOrder
<1> SUFFICES ASSUME MuxInit PROVE Based /\ InOrder
  OBVIOUS
<1>1. call = [t \in Task |-> NoCall] /\ os = InitOs
  BY DEF MuxInit, InitIpc, Init
<1>2. \A t \in User : "UNUSED" \in os.status[t]
  BY <1>1, TcbAssumption DEF InitOs, Tcb, Task
<1> QED BY <1>1, <1>2, MuxHeads DEF Based, InOrder

----------------------------------------------------------------------------

\* The inductive invariant of the mutexes holds in every reachable state.
THEOREM MuxInvariance ==
  ASSUME ~IsrSuspends
  PROVE  MuxSpec => []MuxInv
<1>1. MuxInit => MuxInv
  BY MuxInitInv
<1>2. MuxInv /\ [MuxNext]_vars => MuxInv'
  BY MuxNextInv
<1> QED BY <1>1, <1>2, PTL DEF MuxSpec

\* Whoever waits for a mutex waits for a living task that can release it, and nobody waits
\* for its own: expiries, deletions and hand-overs never leave a waiter without an owner.
THEOREM MuxWaitsForOwner ==
  ASSUME ~IsrSuspends
  PROVE  MuxSpec => []WaitsForOwner
<1>1. MuxInv => WaitsForOwner
  <2>1. MuxInv => MuxTypeOK
    BY DEF MuxInv, Core, Consistent, TypeOK, MuxTypeOK, Waiters, Blocks
  <2> QED BY <2>1 DEF MuxInv, Owned, Waited, WaitsForOwner
<1> QED BY <1>1, MuxInvariance, PTL

\* Priorities go up and down while tasks wait, are handed mutexes, time out and are
\* deleted: every task control block is on exactly the lists its status says.
THEOREM MuxListsAgree ==
  ASSUME ~IsrSuspends
  PROVE  MuxSpec => []ListsAgree
<1>1. MuxInv => ListsAgree
  BY ConsistentLists DEF MuxInv, Core, ListsAgree
<1> QED BY <1>1, MuxInvariance, PTL

\* The kernel mutex implements the abstract one: one owner at a time, who alone releases
\* and as often as it locked, hand-over to the task that waits longest, and a task returns
\* from its wait as the owner or with an error.
THEOREM MuxImplements ==
  ASSUME ~IsrSuspends
  PROVE  MuxSpec => ImplementsMutex
<1>1. MuxInit => Abstract!Init
  BY MuxInitAbstract
<1>2. MuxInv /\ [MuxNext]_vars => [Abstract!Next]_(Abstract!mvars)
  BY MuxNextAbstract DEF AbstractStep
<1> QED BY <1>1, <1>2, MuxInvariance, PTL DEF MuxSpec, ImplementsMutex, Abstract!Spec

\* A task that holds no mutex runs at the priority it was given: when tasks nest their
\* mutexes in one order, release them in the reverse one and set no priority, what a task
\* inherits at whatever nesting is gone with its last release.
THEOREM MuxPriorityRestored ==
  ASSUME ~IsrSuspends, PriSetArg = {}, Ordered
  PROVE  MuxSpec => []PriorityRestored
<1>1. MuxInit => Based /\ InOrder
  BY MuxInitBase
<1>2. MuxInv /\ Based /\ InOrder /\ [MuxNext]_vars => Based' /\ InOrder'
  BY MuxNextBase
<1>3. Based => PriorityRestored
  BY DEF Based, PriorityRestored
<1> QED BY <1>1, <1>2, <1>3, MuxInvariance, PTL DEF MuxSpec

=============================================================================
